---------------------------- MODULE Spec2Model ----------------------------
(***************************************************************************)
(* A model of the ChampSim log summarizer (src/champsim_e2e.py): the       *)
(* per-file parser parse_one_file with its level parsers, the batch loop   *)
(* of main, the output stages and the IPC normalization with its           *)
(* geometric mean.                                                         *)
(* It also models the job submitter (src/submit.py): the array ranges of   *)
(* submit_in_chunks and what main does after the submission.               *)
(*                                                                         *)
(* Representation.                                                         *)
(*  - A log text is a sequence of lines.  A line is a record               *)
(*      [col, hier, unit, stmt, args]:                                     *)
(*      col  = 0 when the statement starts the line, 1 when other text     *)
(*             precedes it on the same line;                               *)
(*      hier = TRUE when the unit name carries the prefix "cpu0->";        *)
(*      unit = the unit name that starts the statement ("cpu0_L1D", "LLC", *)
(*             ... or "" for a statement without one);                     *)
(*      stmt = the statement's fixed words (which regular expression of    *)
(*             the source it can match);                                   *)
(*      args = the captured substrings, each a sequence of characters.     *)
(*    Every regular expression of the source is a predicate on one line    *)
(*    and re.search / finditer become a first / last search over lines.    *)
(*  - A Python value is a tagged record: None, an int, a float (an exact   *)
(*    rational n/d in lowest terms; rounding is not modelled) or a str.    *)
(*  - A dict is a function from key strings to values; d.update(e) is      *)
(*    e @@ d.                                                              *)
(***************************************************************************)
EXTENDS Integers, Sequences, FiniteSets, TLC

VARIABLES
    files,        \* sorted(glob.glob(args.glob)): the batch, fixed at start
    i,            \* index in files of the next file of the batch loop
    reads,        \* what reading each file opened so far did, by index in files
    rows,         \* main: rows
    error_rows,   \* main: error_rows
    pc,           \* where main stands
    written,      \* the output files written so far, in order
    norm_rows,    \* main: norm_rows
    lst,          \* geomean: its argument
    gm,           \* geomean: its result
    opts,         \* submit.py: args.wait, args.summarize, args.no_auto_summarize
    total,        \* submit.py: the number of tasks of the matrix
    chunk,        \* submit_in_chunks: chunk
    start,        \* submit_in_chunks: start of the next range
    piece,        \* submit_in_chunks: piece
    cmds,         \* the sbatch commands run so far, in order
    job_ids,      \* submit_in_chunks: job_ids
    queue,        \* the jobs Slurm has accepted that have not ended
    polled,       \* wait_for_jobs: the lines of the last squeue output, 0 before
    summarized,   \* summarize_this_run was called
    spc           \* where submit.py stands

e2e_vars == <<files, i, reads, rows, error_rows, pc, written, norm_rows, lst, gm>>
submit_vars ==
    <<opts, total, chunk, start, piece, cmds, job_ids, queue, polled, summarized, spc>>
vars == <<e2e_vars, submit_vars>>

-----------------------------------------------------------------------------
(* Python values *)

None == [t |-> "none"]
PyInt(n) == [t |-> "int", v |-> n]
PyStr(s) == [t |-> "str", s |-> s]

Abs(x) == IF x < 0 THEN -x ELSE x

RECURSIVE GCD(_, _)
GCD(a, b) == IF b = 0 THEN a ELSE GCD(b, a % b)

\* the float n/d (d > 0), in lowest terms
PyFloat(n, d) ==
    LET g == GCD(Abs(n), d)
    IN  [t |-> "float", n |-> n \div g, d |-> d \div g]

IsNone(v) == v.t = "none"
IsNum(v) == v.t \in {"int", "float"}
\* numerator and denominator of an int or a float
NumOf(v) == IF v.t = "int" THEN v.v ELSE v.n
DenOf(v) == IF v.t = "int" THEN 1 ELSE v.d

\* Python's truth value of None or a number: "if v", "not v"
Truthy(v) == IsNum(v) /\ NumOf(v) # 0

\* a / b on numbers (b # 0): always a float
TrueDiv(a, b) ==
    LET n == NumOf(a) * DenOf(b)
        d == DenOf(a) * NumOf(b)
    IN  IF d < 0 THEN PyFloat(-n, -d) ELSE PyFloat(n, d)

-----------------------------------------------------------------------------
(* Conversion of captured substrings: int(s), float(s) *)

Digits == {"0", "1", "2", "3", "4", "5", "6", "7", "8", "9"}

DigitVal(c) ==
    CASE c = "0" -> 0 [] c = "1" -> 1 [] c = "2" -> 2 [] c = "3" -> 3
      [] c = "4" -> 4 [] c = "5" -> 5 [] c = "6" -> 6 [] c = "7" -> 7
      [] c = "8" -> 8 [] c = "9" -> 9

RECURSIVE Pow10(_)
Pow10(k) == IF k = 0 THEN 1 ELSE 10 * Pow10(k - 1)

\* the number written by the digits of s, every other character skipped
RECURSIVE DigitsValue(_)
DigitsValue(s) ==
    IF s = <<>> THEN 0
    ELSE LET c == s[Len(s)]
             r == DigitsValue(SubSeq(s, 1, Len(s) - 1))
         IN  IF c \in Digits THEN 10 * r + DigitVal(c) ELSE r

CountOf(s, c) == Cardinality({k \in 1..Len(s) : s[k] = c})

\* the digits after the decimal point of s
FracDigits(s) ==
    IF \E k \in 1..Len(s) : s[k] = "."
    THEN Len(s) - (CHOOSE k \in 1..Len(s) : s[k] = ".")
    ELSE 0

\* s is a decimal numeral float() accepts: digits with at most one point
IsDecimal(s) ==
    /\ \A k \in 1..Len(s) : s[k] \in Digits \cup {"."}
    /\ \E k \in 1..Len(s) : s[k] \in Digits
    /\ CountOf(s, ".") <= 1

Unsigned(s) == IF s # <<>> /\ s[1] \in {"-", "+"} THEN Tail(s) ELSE s
Negative(s) == s # <<>> /\ s[1] = "-"

\* float(s): [ok |-> FALSE] stands for the ValueError it raises;
\* kind is "num", "nan" or "inf"
float(s) ==
    LET u == Unsigned(s)
    IN  IF u = <<"n", "a", "n">> THEN [ok |-> TRUE, kind |-> "nan", val |-> None]
        ELSE IF u = <<"i", "n", "f">> THEN [ok |-> TRUE, kind |-> "inf", val |-> None]
        ELSE IF IsDecimal(u)
             THEN [ok |-> TRUE, kind |-> "num",
                   val |-> PyFloat((IF Negative(s) THEN -1 ELSE 1) * DigitsValue(u),
                                   Pow10(FracDigits(u)))]
             ELSE [ok |-> FALSE, kind |-> "ValueError", val |-> None]

\* int(s) of a capture of \d+
int(s) == PyInt(DigitsValue(s))

safe_float(s) ==
    LET r == float(s)
    IN  IF ~r.ok THEN None
        ELSE IF r.kind \in {"nan", "inf"} THEN None
        ELSE r.val


-----------------------------------------------------------------------------
(* Lines and the regular expressions of the source *)

Line(col, hier, unit, stmt, args) ==
    [col |-> col, hier |-> hier, unit |-> unit, stmt |-> stmt, args |-> args]

\* a match object: the captured groups, or no match
NoMatch == [found |-> FALSE, groups |-> <<>>]
Match(groups) == [found |-> TRUE, groups |-> groups]

\* re.search: the first line of the text that P accepts, groups G of it
Search(txt, P(_), G(_)) ==
    IF \E k \in 1..Len(txt) : P(txt[k])
    THEN LET k == CHOOSE k \in 1..Len(txt) :
                      P(txt[k]) /\ \A j \in 1..(k - 1) : ~P(txt[j])
         IN  Match(G(txt[k]))
    ELSE NoMatch

AllGroups(l) == l.args

\* the unit names \w+ accepts after "cpu0_"
Cpu0Units == {"cpu0_L1D", "cpu0_L1I", "cpu0_L2C", "cpu0_DTLB", "cpu0_ITLB", "cpu0_STLB"}

\* _WP_SIG: ^(?:cpu0_\w+|LLC) WRONG-PATH\s+ACCESS:
WP_SIG(l) ==
    /\ l.col = 0
    /\ ~l.hier
    /\ l.unit \in Cpu0Units \cup {"LLC"}
    /\ l.stmt = "WRONG-PATH ACCESS"

\* _NORM_SIG: cpu0->cpu0_
NORM_SIG(l) == l.hier /\ l.unit \in Cpu0Units

\* _WP_MODE: Wrong path enabled
WP_MODE(l) == l.stmt = "Wrong path enabled"

\* ROI_RE: the IPC capture is [\d.]+, the others \d+, wp_cycles optional
ROI_RE(l) ==
    /\ l.stmt = "cumulative IPC"
    /\ Len(l.args) = 4
    /\ l.args[1] # <<>>
    /\ \A k \in 1..Len(l.args[1]) : l.args[1][k] \in Digits \cup {"."}

\* an unanchored pattern made of the fixed words w
Words(w, l) == l.stmt = w

Exists(txt, P(_)) == \E k \in 1..Len(txt) : P(txt[k])

-----------------------------------------------------------------------------
(* Column schema *)

CACHE_LEVELS == <<"l1d", "l1i", "l2c", "llc">>
TLB_LEVELS == <<"dtlb", "itlb", "stlb">>

CACHE_FIELDS ==
    << "load_access", "load_hit", "load_miss", "load_mpki",
       "pf_access", "pf_hit", "pf_miss",
       "pf_requested", "pf_issued", "pf_useful", "pf_useless",
       "wp_access", "wp_useful", "wp_fill", "wp_useless",
       "pollution", "pol_wp_fill", "pol_wp_miss", "pol_cp_fill", "pol_cp_miss",
       "data_req", "data_hit", "data_miss", "data_wp_req", "data_wp_hit", "data_wp_miss",
       "miss_lat", "wp_miss_lat", "cp_miss_lat" >>

TLB_FIELDS ==
    << "access", "hit", "miss", "mpki",
       "wp_access", "wp_useful", "wp_useless",
       "miss_lat", "wp_miss_lat", "cp_miss_lat" >>

\* [f"{lv}_{f}" for lv in levels for f in fields]
LevelColumns(levels, fields) ==
    [k \in 1..(Len(levels) * Len(fields)) |->
        levels[((k - 1) \div Len(fields)) + 1] \o "_" \o fields[((k - 1) % Len(fields)) + 1]]

FULL_FIELDNAMES ==
    <<"bench", "config", "file", "log_format", "wp_mode", "parse_warnings">>
    \o <<"cycles", "inst", "ipc", "wp_cycles",
         "wp_insts_total", "wp_insts_skipped", "wp_insts_executed",
         "instr_footprint", "data_footprint", "is_prefetch_insts", "is_prefetch_skipped">>
    \o <<"branch_acc_percent", "branch_mpki",
         "br_direct_jump_mpki", "br_indirect_mpki", "br_conditional_mpki",
         "br_direct_call_mpki", "br_indirect_call_mpki", "br_return_mpki">>
    \o <<"exec_only_wp_cycles", "exec_only_cp_cycles", "exec_cp_wp_cycles",
         "rob_full_cycles", "rob_empty_cycles", "rob_full_events", "rob_empty_events",
         "resteer_events", "resteer_penalty_pct", "wp_not_avail_cycles_pct">>
    \o LevelColumns(CACHE_LEVELS, CACHE_FIELDS)
    \o LevelColumns(TLB_LEVELS, TLB_FIELDS)
    \o <<"dram_rq_row_hit", "dram_rq_row_miss">>

\* a summary list with a column the full schema does not have
SUMMARY_FIELDNAMES_stale ==
    << "bench", "config", "log_format", "wp_mode", "parse_warnings",
       "cycles", "wp_cycles", "inst", "ipc",
       "branch_mpki",
       "llc_load_miss", "llc_mpki", "llc_miss_lat",
       "llc_pf_useful", "llc_pf_useless",
       "llc_wp_access", "llc_wp_useful",
       "llc_pol_cp_miss",
       "l2c_pf_useful", "l2c_pf_useless",
       "l2c_pollution" >>

SUMMARY_FIELDNAMES ==
    << "bench", "config", "log_format", "wp_mode", "parse_warnings",
       "cycles", "wp_cycles", "inst", "ipc",
       "branch_mpki",
       "llc_load_miss", "llc_load_mpki", "llc_miss_lat",
       "llc_pf_useful", "llc_pf_useless",
       "llc_wp_access", "llc_wp_useful",
       "llc_pol_cp_miss",
       "l2c_pf_useful", "l2c_pf_useless",
       "l2c_pollution" >>

ERROR_FIELDNAMES == <<"file", "bench", "config", "error_code", "detail">>

Range(s) == {s[k] : k \in 1..Len(s)}

-----------------------------------------------------------------------------
(* Prefix mapping and helpers *)

\* the log line prefix of a cache level: "cpu0->" or not, and the unit name
cache_prefix(lv, fmt_str) ==
    [hier |-> (fmt_str = "normal"),
     unit |-> CASE lv = "l1d" -> "cpu0_L1D" [] lv = "l1i" -> "cpu0_L1I"
                [] lv = "l2c" -> "cpu0_L2C" [] lv = "llc" -> "LLC"]

tlb_prefix(tlv, fmt_str) ==
    [hier |-> (fmt_str = "normal"),
     unit |-> CASE tlv = "dtlb" -> "cpu0_DTLB" [] tlv = "itlb" -> "cpu0_ITLB"
                [] tlv = "stlb" -> "cpu0_STLB"]

\* S(pat): r"^" + re.escape(pfx) + r" " + pat, searched with re.MULTILINE
AtPrefix(l, pfx, w) ==
    l.col = 0 /\ l.hier = pfx.hier /\ l.unit = pfx.unit /\ l.stmt = w

\* A file name is [idx, parts], standing for "<idx>_<part>_..._<part>.txt"
\* with a two-digit idx.
\* --label-map default: key substring -> label, first match wins
LABEL_MAP ==
    << [key |-> "resche2", lab |-> "schedcost_on"],
       [key |-> "resche_", lab |-> "schedcost_off"],
       [key |-> "ChampSim", lab |-> "latest"] >>

\* --baseline default
BASELINE == "latest"

\* key in fname: "resche_" needs a part "resche" followed by another part
KeyIn(key, fname) ==
    \E k \in 1..Len(fname.parts) :
        \/ key = fname.parts[k]
        \/ key = "resche_" /\ fname.parts[k] = "resche" /\ k < Len(fname.parts)

label_from_name(fname, label_map) ==
    IF \E k \in 1..Len(label_map) : KeyIn(label_map[k].key, fname)
    THEN label_map[CHOOSE k \in 1..Len(label_map) :
                       /\ KeyIn(label_map[k].key, fname)
                       /\ \A j \in 1..(k - 1) : ~KeyIn(label_map[j].key, fname)].lab
    ELSE "unknown"

\* the base name without ".txt", cut at the first "_ChampSim", the leading
\* "<digits>_" dropped: the parts that remain
bench_from_name(fname) ==
    LET p == fname.parts
        cut == IF \E k \in 1..Len(p) : p[k] = "ChampSim"
               THEN (CHOOSE k \in 1..Len(p) :
                         p[k] = "ChampSim" /\ \A j \in 1..(k - 1) : p[j] # "ChampSim") - 1
               ELSE Len(p)
    IN  SubSeq(p, 1, cut)

getint(m, grp) == IF m.found THEN int(m.groups[grp]) ELSE None

getfloat(m, grp) == IF m.found THEN safe_float(m.groups[grp]) ELSE None

\* the first match of ROI_RE in the text, where the source takes the last
last_roi_first(txt) ==
    IF \E k \in 1..Len(txt) : ROI_RE(txt[k])
    THEN LET k == CHOOSE k \in 1..Len(txt) :
                      ROI_RE(txt[k]) /\ \A j \in 1..(k - 1) : ~ROI_RE(txt[j])
         IN  Match(txt[k].args)
    ELSE NoMatch

\* the last match of ROI_RE in the text
last_roi(txt) ==
    IF \E k \in 1..Len(txt) : ROI_RE(txt[k])
    THEN LET k == CHOOSE k \in 1..Len(txt) :
                      ROI_RE(txt[k]) /\ \A j \in (k + 1)..Len(txt) : ~ROI_RE(txt[j])
         IN  Match(txt[k].args)
    ELSE NoMatch

\* misses per instruction, where the source gives misses per 1000
mpki_val_per_inst(miss, inst) ==
    IF IsNone(miss) \/ IsNone(inst) \/ NumOf(inst) = 0
    THEN None
    ELSE TrueDiv(PyFloat(NumOf(miss), 1), inst)

mpki_val(miss, inst) ==
    IF IsNone(miss) \/ IsNone(inst) \/ NumOf(inst) = 0
    THEN None
    ELSE TrueDiv(PyFloat(NumOf(miss) * 1000, 1), inst)

-----------------------------------------------------------------------------
(* Per-level cache parser: the 29 fields of one level *)

\* a key that drops the level
LevelKey_flat(lv, f) == f

\* the key f"{lv}_{f}" of a field of a level
LevelKey(lv, f) == lv \o "_" \o f

\* a suppressed set that leaves the pollution ratio out
WP_OFF_NULL_CACHE_counts ==
    {"wp_access", "wp_useful", "wp_fill", "wp_useless",
     "pol_wp_fill", "pol_wp_miss",
     "data_wp_req", "data_wp_hit", "data_wp_miss"}

\* the locals the "if not wp_on" block of parse_cache_level sets to None
WP_OFF_NULL_CACHE ==
    {"wp_access", "wp_useful", "wp_fill", "wp_useless",
     "pollution", "pol_wp_fill", "pol_wp_miss",
     "data_wp_req", "data_wp_hit", "data_wp_miss"}

\* the locals the "if not wp_on" block of parse_tlb_level sets to None
WP_OFF_NULL_TLB == {"wp_access", "wp_useful", "wp_useless"}

\* a variant that extracts the wrong-path fields from a log of any format
WpCapableOnly_any(fmt_str, wp_on, off, name, v) ==
    IF ~wp_on /\ name \in off THEN None ELSE v

\* a local of the "WP-capable-only" part of a level parser: extracted as v
\* when the format is wp_capable, then set to None when WP is off and the
\* local is in the suppressed set off; None for every other format
WpCapableOnly(fmt_str, wp_on, off, name, v) ==
    IF fmt_str = "wp_capable"
    THEN IF ~wp_on /\ name \in off THEN None ELSE v
    ELSE None

\* the pattern of the miss latency line, by format
MissLatencyWords(fmt_str) ==
    IF fmt_str = "normal" THEN "AVERAGE MISS LATENCY" ELSE "AVERAGE DATA MISS LATENCY"

parse_cache_level(txt, lv, fmt_str, wp_on, inst) ==
    LET pfx == cache_prefix(lv, fmt_str)
        S(w) == Search(txt, LAMBDA l : AtPrefix(l, pfx, w), AllGroups)
        G(name, v) == WpCapableOnly(fmt_str, wp_on, WP_OFF_NULL_CACHE, name, v)
        m_load == S("LOAD ACCESS")
        m_pf   == S("PREFETCH ACCESS")
        m_pfr  == S("PREFETCH REQUESTED")
        m_lat  == S(MissLatencyWords(fmt_str))
        m_wp   == S("WRONG-PATH ACCESS")
        m_pol  == S("POLLUTION")
        m_data == S("DATA REQ")
        m_wpl  == S("AVERAGE WP DATA MISS LATENCY")
        m_cpl  == S("AVERAGE CP DATA MISS LATENCY")
        load_miss == getint(m_load, 3)
    IN  (LevelKey(lv, "load_access")  :> getint(m_load, 1))
     @@ (LevelKey(lv, "load_hit")     :> getint(m_load, 2))
     @@ (LevelKey(lv, "load_miss")    :> load_miss)
     @@ (LevelKey(lv, "load_mpki")    :> mpki_val(load_miss, inst))
     @@ (LevelKey(lv, "pf_access")    :> getint(m_pf, 1))
     @@ (LevelKey(lv, "pf_hit")       :> getint(m_pf, 2))
     @@ (LevelKey(lv, "pf_miss")      :> getint(m_pf, 3))
     @@ (LevelKey(lv, "pf_requested") :> getint(m_pfr, 1))
     @@ (LevelKey(lv, "pf_issued")    :> getint(m_pfr, 2))
     @@ (LevelKey(lv, "pf_useful")    :> getint(m_pfr, 3))
     @@ (LevelKey(lv, "pf_useless")   :> getint(m_pfr, 4))
     @@ (LevelKey(lv, "wp_access")    :> G("wp_access", getint(m_wp, 1)))
     @@ (LevelKey(lv, "wp_useful")    :> G("wp_useful", getint(m_wp, 2)))
     @@ (LevelKey(lv, "wp_fill")      :> G("wp_fill", getint(m_wp, 3)))
     @@ (LevelKey(lv, "wp_useless")   :> G("wp_useless", getint(m_wp, 4)))
     @@ (LevelKey(lv, "pollution")    :> G("pollution", getfloat(m_pol, 1)))
     @@ (LevelKey(lv, "pol_wp_fill")  :> G("pol_wp_fill", getint(m_pol, 2)))
     @@ (LevelKey(lv, "pol_wp_miss")  :> G("pol_wp_miss", getint(m_pol, 3)))
     @@ (LevelKey(lv, "pol_cp_fill")  :> G("pol_cp_fill", getint(m_pol, 4)))
     @@ (LevelKey(lv, "pol_cp_miss")  :> G("pol_cp_miss", getint(m_pol, 5)))
     @@ (LevelKey(lv, "data_req")     :> G("data_req", getint(m_data, 1)))
     @@ (LevelKey(lv, "data_hit")     :> G("data_hit", getint(m_data, 2)))
     @@ (LevelKey(lv, "data_miss")    :> G("data_miss", getint(m_data, 3)))
     @@ (LevelKey(lv, "data_wp_req")  :> G("data_wp_req", getint(m_data, 4)))
     @@ (LevelKey(lv, "data_wp_hit")  :> G("data_wp_hit", getint(m_data, 5)))
     @@ (LevelKey(lv, "data_wp_miss") :> G("data_wp_miss", getint(m_data, 6)))
     @@ (LevelKey(lv, "miss_lat")     :> getfloat(m_lat, 1))
     @@ (LevelKey(lv, "wp_miss_lat")  :> G("wp_miss_lat", getfloat(m_wpl, 1)))
     @@ (LevelKey(lv, "cp_miss_lat")  :> G("cp_miss_lat", getfloat(m_cpl, 1)))

(* Per-level TLB parser: the 10 fields of one TLB *)

\* the groups of the TLB's wrong-path pattern: FILL is matched, not captured
TlbWpGroups(l) == <<l.args[1], l.args[2], l.args[4]>>

parse_tlb_level(txt, tlv, fmt_str, wp_on, inst) ==
    LET pfx == tlb_prefix(tlv, fmt_str)
        S(w) == Search(txt, LAMBDA l : AtPrefix(l, pfx, w), AllGroups)
        G(name, v) == WpCapableOnly(fmt_str, wp_on, WP_OFF_NULL_TLB, name, v)
        m_load == S("LOAD ACCESS")
        m_lat  == S(MissLatencyWords(fmt_str))
        m_wp   == Search(txt, LAMBDA l : AtPrefix(l, pfx, "WRONG-PATH ACCESS"), TlbWpGroups)
        m_wpl  == S("AVERAGE WP DATA MISS LATENCY")
        m_cpl  == S("AVERAGE CP DATA MISS LATENCY")
        miss == getint(m_load, 3)
    IN  (LevelKey(tlv, "access")      :> getint(m_load, 1))
     @@ (LevelKey(tlv, "hit")         :> getint(m_load, 2))
     @@ (LevelKey(tlv, "miss")        :> miss)
     @@ (LevelKey(tlv, "mpki")        :> mpki_val(miss, inst))
     @@ (LevelKey(tlv, "wp_access")   :> G("wp_access", getint(m_wp, 1)))
     @@ (LevelKey(tlv, "wp_useful")   :> G("wp_useful", getint(m_wp, 2)))
     @@ (LevelKey(tlv, "wp_useless")  :> G("wp_useless", getint(m_wp, 3)))
     @@ (LevelKey(tlv, "miss_lat")    :> getfloat(m_lat, 1))
     @@ (LevelKey(tlv, "wp_miss_lat") :> G("wp_miss_lat", getfloat(m_wpl, 1)))
     @@ (LevelKey(tlv, "cp_miss_lat") :> G("cp_miss_lat", getfloat(m_cpl, 1)))

-----------------------------------------------------------------------------
(* Core parser *)

\* a detection that checks the normal signature first
detect_format_normal_first(txt) ==
    IF Exists(txt, NORM_SIG) THEN "normal"
    ELSE IF Exists(txt, WP_SIG) THEN "wp_capable"
    ELSE ""

\* a detection that takes a log without a signature as normal
detect_format_lenient(txt) ==
    IF Exists(txt, WP_SIG) THEN "wp_capable" ELSE "normal"

\* format detection: the wp_capable signature first, then the normal one;
\* "" stands for the return of unknown_format
detect_format(txt) ==
    IF Exists(txt, WP_SIG) THEN "wp_capable"
    ELSE IF Exists(txt, NORM_SIG) THEN "normal"
    ELSE ""

detect_wp_mode(txt) == IF Exists(txt, WP_MODE) THEN "on" ELSE "off"

\* re.search of an unanchored pattern made of the words w
W(txt, w) == Search(txt, LAMBDA l : Words(w, l), AllGroups)

\* the conversion of the ROI line's IPC capture
roi_ipc(s) == float(s)

\* the outcomes of parse_one_file: a row, an error code, or an exception
\* that parse_one_file does not catch
Row(row) == [raised |-> FALSE, err |-> "", detail |-> "", row |-> row]
Error(code, detail) == [raised |-> FALSE, err |-> code, detail |-> detail, row |-> <<>>]
Raise == [raised |-> TRUE, err |-> "", detail |-> "ValueError", row |-> <<>>]

\* a variant that extracts G4 from a log of any format
G4Int_any(log_format, txt, w) == getint(W(txt, w), 1)

\* G4 is extracted only from a wp_capable log
G4Int(log_format, txt, w) == IF log_format = "wp_capable" THEN getint(W(txt, w), 1) ELSE None
G4Float(log_format, txt, w) == IF log_format = "wp_capable" THEN getfloat(W(txt, w), 1) ELSE None

\* a variant that looks for the ROI line before the format signature
hard_error_roi_first(log_format, m_roi) ==
    IF ~m_roi.found THEN Error("missing_roi", "No ROI line in path")
    ELSE IF log_format = "" THEN Error("unknown_format", "No recognizable format signature in path")
    ELSE Row(<<>>)

\* the early returns of parse_one_file after the read, in their order: the
\* format signature, then the ROI line; Row(<<>>) when neither returns
hard_error(log_format, m_roi) ==
    IF log_format = "" THEN Error("unknown_format", "No recognizable format signature in path")
    ELSE IF ~m_roi.found THEN Error("missing_roi", "No ROI line in path")
    ELSE Row(<<>>)

\* rd is what open(path).read() did: [ok |-> FALSE] when it raised,
\* [ok |-> TRUE, text |-> the text] otherwise
parse_one_file(rd) ==
    IF ~rd.ok THEN Error("unreadable_file", "str(e)")
    ELSE
    LET txt == rd.text
        log_format == detect_format(txt)
        wp_mode == detect_wp_mode(txt)
        wp_on == (wp_mode = "on")
        m_roi == last_roi(txt)
        ipc == roi_ipc(m_roi.groups[1])
        inst == int(m_roi.groups[2])
        cycles == int(m_roi.groups[3])
        wp_cycles == IF m_roi.groups[4] # <<>> THEN int(m_roi.groups[4]) ELSE None
        warnings == IF log_format = "wp_capable" /\ IsNone(wp_cycles)
                    THEN "missing_wp_cycles" ELSE ""
        m_wpi == W(txt, "wrong_path_insts")
        m_fp == W(txt, "instr_foot_print")
        m_ispf == W(txt, "is_prefetch_insts")
        m_br == W(txt, "Branch Prediction Accuracy")
        m_dram == W(txt, "Channel 0 RQ ROW_BUFFER_HIT")
        C(lv) == parse_cache_level(txt, lv, log_format, wp_on, inst)
        T(tlv) == parse_tlb_level(txt, tlv, log_format, wp_on, inst)
        \* cache_rows.update(...) for l1d, l1i, l2c, llc in this order
        cache_rows == C("llc") @@ C("l2c") @@ C("l1i") @@ C("l1d")
        \* tlb_rows.update(...) for dtlb, itlb, stlb in this order
        tlb_rows == T("stlb") @@ T("itlb") @@ T("dtlb")
        row ==
            [ log_format |-> PyStr(log_format),
              wp_mode |-> PyStr(wp_mode),
              parse_warnings |-> PyStr(warnings),
              cycles |-> cycles,
              inst |-> inst,
              ipc |-> ipc.val,
              wp_cycles |-> wp_cycles,
              wp_insts_total |-> getint(m_wpi, 1),
              wp_insts_skipped |-> getint(m_wpi, 2),
              wp_insts_executed |-> getint(m_wpi, 3),
              instr_footprint |-> getint(m_fp, 1),
              data_footprint |-> getint(m_fp, 2),
              is_prefetch_insts |-> getint(m_ispf, 1),
              is_prefetch_skipped |-> getint(m_ispf, 2),
              branch_acc_percent |-> getfloat(m_br, 1),
              branch_mpki |-> getfloat(m_br, 2),
              br_direct_jump_mpki |-> getfloat(W(txt, "BRANCH_DIRECT_JUMP"), 1),
              br_indirect_mpki |-> getfloat(W(txt, "BRANCH_INDIRECT"), 1),
              br_conditional_mpki |-> getfloat(W(txt, "BRANCH_CONDITIONAL"), 1),
              br_direct_call_mpki |-> getfloat(W(txt, "BRANCH_DIRECT_CALL"), 1),
              br_indirect_call_mpki |-> getfloat(W(txt, "BRANCH_INDIRECT_CALL"), 1),
              br_return_mpki |-> getfloat(W(txt, "BRANCH_RETURN"), 1),
              exec_only_wp_cycles |-> G4Int(log_format, txt, "Execute Only WP Cycles"),
              exec_only_cp_cycles |-> G4Int(log_format, txt, "Execute Only CP Cycles"),
              exec_cp_wp_cycles |-> G4Int(log_format, txt, "Execute CP WP Cycles"),
              rob_full_cycles |-> G4Int(log_format, txt, "ROB Full Cycles"),
              rob_empty_cycles |-> G4Int(log_format, txt, "ROB Empty Cycles"),
              rob_full_events |-> G4Int(log_format, txt, "ROB Full Events"),
              rob_empty_events |-> G4Int(log_format, txt, "ROB Empty Events"),
              resteer_events |-> G4Int(log_format, txt, "Resteer Events"),
              resteer_penalty_pct |-> G4Float(log_format, txt, "Resteer Penalty"),
              wp_not_avail_cycles_pct |-> G4Float(log_format, txt, "WP Not Available Count"),
              dram_rq_row_hit |-> getint(m_dram, 1),
              dram_rq_row_miss |-> getint(m_dram, 2) ]
    IN  IF hard_error(log_format, m_roi).err # "" THEN hard_error(log_format, m_roi)
        ELSE IF ~ipc.ok THEN Raise
        ELSE Row(tlb_rows @@ cache_rows @@ row)

-----------------------------------------------------------------------------
(* Cell formatting: fmt *)

DigitChar(d) ==
    CASE d = 0 -> "0" [] d = 1 -> "1" [] d = 2 -> "2" [] d = 3 -> "3" [] d = 4 -> "4"
      [] d = 5 -> "5" [] d = 6 -> "6" [] d = 7 -> "7" [] d = 8 -> "8" [] d = 9 -> "9"

\* str(n) of an int
RECURSIVE IntStr(_)
IntStr(n) ==
    IF n < 0 THEN "-" \o IntStr(-n)
    ELSE IF n < 10 THEN DigitChar(n)
    ELSE IntStr(n \div 10) \o DigitChar(n % 10)

\* the p digits of n, zeros in front
RECURSIVE FracStr(_, _)
FracStr(n, p) == IF p = 0 THEN "" ELSE FracStr(n \div 10, p - 1) \o DigitChar(n % 10)

\* a / b (a >= 0, b > 0) rounded to the nearest integer, a tie to the even
\* one; the error of the binary representation is not modelled
RoundDiv(a, b) ==
    LET q == a \div b
        r == a % b
    IN  IF 2 * r > b \/ (2 * r = b /\ q % 2 = 1) THEN q + 1 ELSE q

\* f"{v:.<p>f}"
FixedStr(v, p) ==
    LET scaled == RoundDiv(Abs(NumOf(v)) * Pow10(p), DenOf(v))
    IN  (IF NumOf(v) < 0 THEN "-" ELSE "")
        \o IntStr(scaled \div Pow10(p))
        \o (IF p > 0 THEN "." \o FracStr(scaled % Pow10(p), p) ELSE "")

\* the p digits of frac after a point, trailing zeros removed, and the
\* point with them when nothing is left
RECURSIVE StripFrac(_, _)
StripFrac(frac, p) ==
    IF p = 0 THEN ""
    ELSE IF frac % 10 = 0 THEN StripFrac(frac \div 10, p - 1)
    ELSE "." \o FracStr(frac, p)

\* the decimal exponent of a positive a / b: 10^e <= a / b < 10^(e + 1)
RECURSIVE Exponent10(_, _)
Exponent10(a, b) ==
    IF a < b THEN Exponent10(a * 10, b) - 1
    ELSE IF a >= b * 10 THEN Exponent10(a, b * 10) + 1
    ELSE 0

\* f"{v:.4g}": four significant digits, fixed notation for a decimal
\* exponent in -4..3 and scientific notation otherwise
GeneralStr(v) ==
    IF NumOf(v) = 0 THEN "0"
    ELSE
    LET a == Abs(NumOf(v))
        b == DenOf(v)
        e0 == Exponent10(a, b)
        m0 == IF e0 <= 3 THEN RoundDiv(a * Pow10(3 - e0), b)
              ELSE RoundDiv(a, b * Pow10(e0 - 3))
        e == IF m0 >= 10000 THEN e0 + 1 ELSE e0
        m == IF m0 >= 10000 THEN 1000 ELSE m0
        sign == IF NumOf(v) < 0 THEN "-" ELSE ""
    IN  IF e < -4 \/ e >= 4
        THEN sign \o DigitChar(m \div 1000) \o StripFrac(m % 1000, 3)
             \o "e" \o (IF e < 0 THEN "-" ELSE "+") \o FracStr(Abs(e), 2)
        ELSE sign \o IntStr(m \div Pow10(3 - e)) \o StripFrac(m % Pow10(3 - e), 3 - e)

\* the columns whose name holds "_lat", "_mpki", "_percent" or "_pct"
LatColumns ==
    {LevelKey(lv, f) : lv \in Range(CACHE_LEVELS) \cup Range(TLB_LEVELS),
                       f \in {"miss_lat", "wp_miss_lat", "cp_miss_lat"}}
MpkiColumns ==
    {LevelKey(lv, "load_mpki") : lv \in Range(CACHE_LEVELS)}
    \cup {LevelKey(tlv, "mpki") : tlv \in Range(TLB_LEVELS)}
    \cup {"branch_mpki", "br_direct_jump_mpki", "br_indirect_mpki", "br_conditional_mpki",
          "br_direct_call_mpki", "br_indirect_call_mpki", "br_return_mpki"}
PercentColumns == {"branch_acc_percent", "resteer_penalty_pct", "wp_not_avail_cycles_pct"}

\* a variant that tests "if not v": a zero is rendered like None
fmt_falsy(v, field) ==
    IF IsNone(v) \/ (IsNum(v) /\ NumOf(v) = 0) THEN ""
    ELSE IF v.t = "float" THEN FixedStr(v, 4)
    ELSE IF v.t = "int" THEN IntStr(v.v)
    ELSE v.s

\* the text of a cell: "" for None, a float by the precision of its column,
\* str(v) for an int or a str
fmt(v, field) ==
    IF IsNone(v) THEN ""
    ELSE IF v.t = "float"
    THEN IF field \in LatColumns THEN GeneralStr(v)
         ELSE IF field \in MpkiColumns THEN FixedStr(v, 4)
         ELSE IF field \in PercentColumns THEN FixedStr(v, 2)
         ELSE IF field = "ipc" THEN FixedStr(v, 6)
         ELSE FixedStr(v, 4)
    ELSE IF v.t = "int" THEN IntStr(v.v)
    ELSE v.s

\* r.get(k)
RowGet(r, k) == IF k \in DOMAIN r THEN r[k] ELSE None

\* the cells DictWriter writes for rows under the columns fieldnames:
\* {k: fmt(r.get(k), k) for k in fieldnames} for r in rows
Cells(rs, fieldnames) ==
    [k \in 1..Len(rs) |-> [f \in Range(fieldnames) |-> fmt(RowGet(rs[k], f), f)]]

-----------------------------------------------------------------------------
(* Geometric mean *)

RECURSIVE ProdNum(_)
ProdNum(s) == IF s = <<>> THEN 1 ELSE NumOf(Head(s)) * ProdNum(Tail(s))

RECURSIVE ProdDen(_)
ProdDen(s) == IF s = <<>> THEN 1 ELSE DenOf(Head(s)) * ProdDen(Tail(s))

\* math.exp(sum(math.log(x) for x in vals) / len(vals)): the k-th root of the
\* product n/d of the k values; math.log raises ValueError on x <= 0
ExpMeanLog(vals) ==
    IF \E k \in 1..Len(vals) : NumOf(vals[k]) <= 0
    THEN [t |-> "ValueError"]
    ELSE LET p == PyFloat(ProdNum(vals), ProdDen(vals))
         IN  [t |-> "root", n |-> p.n, d |-> p.d, k |-> Len(vals)]

\* a condition that keeps every entry that is not None or zero
GeoKeep_truthy(v) == Truthy(v)

\* the condition of geomean's list comprehension: v and v > 0
GeoKeep(v) == Truthy(v) /\ NumOf(v) > 0

geomean(l) ==
    LET vals == SelectSeq(l, GeoKeep)
    IN  IF vals = <<>> THEN None ELSE ExpMeanLog(vals)

-----------------------------------------------------------------------------
(* Normalization: the second pass of main over rows *)

\* a dict that keeps insertion order: a sequence of [key, val] items
DictHas(d, key) == \E k \in 1..Len(d) : d[k].key = key
DictGet(d, key, default) ==
    IF DictHas(d, key) THEN d[CHOOSE k \in 1..Len(d) : d[k].key = key].val ELSE default
\* an assignment that keeps the value a key already has
DictSet_keep(d, key, val) ==
    IF DictHas(d, key) THEN d ELSE Append(d, [key |-> key, val |-> val])

\* d[key] = val
DictSet(d, key, val) ==
    IF DictHas(d, key)
    THEN [k \in 1..Len(d) |-> IF d[k].key = key THEN [key |-> key, val |-> val] ELSE d[k]]
    ELSE Append(d, [key |-> key, val |-> val])

\* the order of Python's str on the labels of the model
LabelRank(s) ==
    CASE s = "latest" -> 1 [] s = "schedcost_off" -> 2
      [] s = "schedcost_on" -> 3 [] s = "unknown" -> 4
PartRank(s) ==
    CASE s = "ChampSim" -> 1 [] s = "lbm" -> 2 [] s = "mcf" -> 3
      [] s = "other" -> 4 [] s = "resche" -> 5 [] s = "resche2" -> 6
\* a < b for two bench names (sequences of parts joined by "_")
BenchLess(a, b) ==
    \E k \in 1..(Len(b)) :
        /\ \A j \in 1..(k - 1) : j <= Len(a) /\ a[j] = b[j]
        /\ \/ k > Len(a)
           \/ k <= Len(a) /\ PartRank(a[k]) < PartRank(b[k])

\* sorted(S) for a set S of bench names
RECURSIVE SortedBenches(_)
SortedBenches(S) ==
    IF S = {} THEN <<>>
    ELSE LET m == CHOOSE x \in S : \A y \in S \ {x} : BenchLess(x, y)
         IN  <<m>> \o SortedBenches(S \ {m})

\* sorted(S) for a set S of configuration labels
RECURSIVE SortedLabels(_)
SortedLabels(S) ==
    IF S = {} THEN <<>>
    ELSE LET m == CHOOSE x \in S : \A y \in S \ {x} : LabelRank(x) < LabelRank(y)
         IN  <<m>> \o SortedLabels(S \ {m})

\* bybench[b] after "for r in rows: bybench[r["bench"]][r["config"]] = r.get("ipc")"
RECURSIVE bybench(_, _)
bybench(rs, b) ==
    IF rs = <<>> THEN <<>>
    ELSE LET r == rs[Len(rs)]
             d == bybench(SubSeq(rs, 1, Len(rs) - 1), b)
         IN  IF r["bench"].s = b THEN DictSet(d, r["config"].s, r["ipc"]) ELSE d

\* a skip condition that only looks for a missing baseline
NoBaseline_missing(base) == IsNone(base)

\* the benchmark is skipped: "if not base or base <= 0: continue"
NoBaseline(base) == ~Truthy(base) \/ NumOf(base) <= 0

\* norm = (val / base) if val else None
Norm(val, base) == IF Truthy(val) THEN TrueDiv(val, base) ELSE None

\* the rows the loop body appends to norm_rows for bench b with dict d
BenchNormRows(b, d, baseline_label) ==
    LET base == DictGet(d, baseline_label, None)
    IN  IF NoBaseline(base) THEN <<>>
        ELSE [k \in 1..Len(d) |->
                 [bench |-> b, config |-> d[k].key, norm |-> Norm(d[k].val, base)]]

\* norm_rows after the loop over sorted(bybench.items())
RECURSIVE PerBenchRows(_, _, _)
PerBenchRows(rs, benches, baseline_label) ==
    IF benches = <<>> THEN <<>>
    ELSE BenchNormRows(Head(benches), bybench(rs, Head(benches)), baseline_label)
         \o PerBenchRows(rs, Tail(benches), baseline_label)

\* ratios_by_cfg[cfg]: the non-None ratios of the rows of cfg, in order
RatioKept(nr, cfg, baseline_label) ==
    nr.config = cfg /\ ~IsNone(nr.norm) /\ cfg # baseline_label

ratios_by_cfg(nrs, cfg, baseline_label) ==
    LET kept == SelectSeq(nrs, LAMBDA nr : RatioKept(nr, cfg, baseline_label))
    IN  [k \in 1..Len(kept) |-> kept[k].norm]

\* the keys of ratios_by_cfg
RatioConfigs(nrs, baseline_label) ==
    {nrs[k].config : k \in {j \in 1..Len(nrs) :
                                RatioKept(nrs[j], nrs[j].config, baseline_label)}}

GEOMEAN_BENCH == <<"__geomean__">>

\* the rows appended for sorted(ratios_by_cfg.items())
GeomeanRows(nrs, baseline_label) ==
    LET cfgs == SortedLabels(RatioConfigs(nrs, baseline_label))
    IN  [k \in 1..Len(cfgs) |->
            [bench |-> GEOMEAN_BENCH, config |-> cfgs[k],
             norm |-> geomean(ratios_by_cfg(nrs, cfgs[k], baseline_label))]]

\* norm_rows as main builds it from rows
normalize(rs, baseline_label) ==
    LET benches == SortedBenches({rs[k]["bench"].s : k \in 1..Len(rs)})
        per == PerBenchRows(rs, benches, baseline_label)
    IN  per \o GeomeanRows(per, baseline_label)

-----------------------------------------------------------------------------
(* Inputs: file names and log texts *)

MaxFiles == 3     \* files in a batch
MaxLines == 3     \* lines of the text of a single-file batch
MaxList == 3      \* entries of the list geomean is applied to

FileName(idx, parts) == [idx |-> idx, parts |-> parts]

\* the result files of two traces under two binaries, one run repeated
Names ==
    { FileName(0, <<"mcf", "ChampSim">>),
      FileName(1, <<"mcf", "ChampSim", "resche2">>),
      FileName(2, <<"lbm", "ChampSim", "resche2">>),
      FileName(3, <<"lbm", "ChampSim">>),
      FileName(4, <<"mcf", "ChampSim">>) }

\* sorted(glob.glob(...)) of a set of names: by increasing idx
RECURSIVE SortedNames(_)
SortedNames(S) ==
    IF S = {} THEN <<>>
    ELSE LET m == CHOOSE x \in S : \A y \in S \ {x} : x.idx < y.idx
         IN  <<m>> \o SortedNames(S \ {m})

Stmt(w, args) == Line(0, FALSE, "", w, args)

RoiLine(ipc, inst, cycles, wp_cycles) ==
    Stmt("cumulative IPC", <<ipc, inst, cycles, wp_cycles>>)

ROI_A == RoiLine(<<"2">>, <<"4">>, <<"2">>, <<>>)
ROI_B == RoiLine(<<"0", ".", "5">>, <<"5">>, <<"1", "0">>, <<"7">>)
ROI_Z == RoiLine(<<"0">>, <<"0">>, <<"9">>, <<>>)
ROI_X == RoiLine(<<"1", ".", "2", ".", "3">>, <<"4">>, <<"2">>, <<>>)
ROI_DOT == RoiLine(<<".">>, <<"4">>, <<"2">>, <<>>)
ROI_ONE == RoiLine(<<"1">>, <<"4">>, <<"4">>, <<>>)

WP_L1D == Line(0, FALSE, "cpu0_L1D", "WRONG-PATH ACCESS", <<<<"0">>, <<"0">>, <<"0">>, <<"0">>>>)
WP_DTLB == Line(0, FALSE, "cpu0_DTLB", "WRONG-PATH ACCESS", <<<<"6">>, <<"1">>, <<"0">>, <<"4">>>>)
LOAD_N1 == Line(0, TRUE, "cpu0_L1D", "LOAD ACCESS", <<<<"9">>, <<"6">>, <<"3">>>>)
LOAD_N2 == Line(0, TRUE, "cpu0_L1D", "LOAD ACCESS", <<<<"8">>, <<"1">>, <<"7">>>>)
LOAD_T == Line(0, FALSE, "cpu0_DTLB", "LOAD ACCESS", <<<<"5">>, <<"4">>, <<"1">>>>)
MODE_ON == Stmt("Wrong path enabled", <<>>)
POL_L1D == Line(0, FALSE, "cpu0_L1D", "POLLUTION",
                <<<<"0", ".", "5">>, <<"1">>, <<"2">>, <<"3">>, <<"4">>>>)
DATA_L1D == Line(0, FALSE, "cpu0_L1D", "DATA REQ",
                 <<<<"9">>, <<"6">>, <<"3">>, <<"2">>, <<"1">>, <<"1">>>>)
WPLAT_L1D == Line(0, FALSE, "cpu0_L1D", "AVERAGE WP DATA MISS LATENCY", <<<<"-", "n", "a", "n">>>>)
CPLAT_DTLB == Line(0, FALSE, "cpu0_DTLB", "AVERAGE CP DATA MISS LATENCY", <<<<"i", "n", "f">>>>)
BRANCH == Stmt("Branch Prediction Accuracy", <<<<"9", "7", ".", "5">>, <<"1", ".", "2", ".", "3">>>>)

\* the lines of the text of a single-file batch
FileLines ==
    { ROI_A, ROI_B, ROI_Z, ROI_X,
      WP_L1D, WP_DTLB, LOAD_N1, LOAD_N2, LOAD_T, MODE_ON,
      POL_L1D, DATA_L1D, WPLAT_L1D, CPLAT_DTLB, BRANCH }

SeqsUpTo(S, n) == UNION {[1..k -> S] : k \in 0..n}

FileTexts == SeqsUpTo(FileLines, MaxLines)

\* the texts of the files of a larger batch: what decides a file's outcome
\* and its IPC
BatchTexts ==
    { <<>>, <<ROI_ONE>>, <<LOAD_N1>>,
      <<LOAD_N1, ROI_Z>>, <<LOAD_N1, ROI_ONE>>, <<WP_L1D, ROI_A>>,
      <<LOAD_N1, ROI_DOT>> }

WP_N1 == Line(0, TRUE, "cpu0_L1D", "WRONG-PATH ACCESS", <<<<"1">>, <<"1">>, <<"1">>, <<"1">>>>)
POL_N1 == Line(0, TRUE, "cpu0_L1D", "POLLUTION",
               <<<<"0", ".", "5">>, <<"1">>, <<"2">>, <<"3">>, <<"4">>>>)
CPLAT_NT == Line(0, TRUE, "cpu0_DTLB", "AVERAGE CP DATA MISS LATENCY", <<<<"7", ".", "5">>>>)
LAT_N1 == Line(0, TRUE, "cpu0_L1D", "AVERAGE MISS LATENCY", <<<<"1", "2", ".", "5">>>>)
ROB_FULL == Stmt("ROB Full Cycles", <<<<"8">>>>)
RESTEER_PCT == Stmt("Resteer Penalty", <<<<"2", ".", "5">>>>)
WP_INSTS == Stmt("wrong_path_insts", <<<<"3">>, <<"1">>, <<"2">>>>)
DRAM == Stmt("Channel 0 RQ ROW_BUFFER_HIT", <<<<"7">>, <<"2">>>>)
BR_DJ == Stmt("BRANCH_DIRECT_JUMP", <<<<"0", ".", "2", "5">>>>)

\* the lines of a log that mixes the lines of both formats
GateLines ==
    { LOAD_N1, ROI_A, MODE_ON, WP_L1D,
      WP_N1, POL_N1, CPLAT_NT, LAT_N1,
      ROB_FULL, RESTEER_PCT, WP_INSTS, DRAM, BR_DJ }

GateTexts == SeqsUpTo(GateLines, MaxLines)

\* the two signatures after other text on their line
MID_NORM == Line(1, TRUE, "cpu0_L1D", "LOAD ACCESS", <<<<"9">>, <<"6">>, <<"3">>>>)
MID_WP == Line(1, FALSE, "cpu0_L1D", "WRONG-PATH ACCESS", <<<<"0">>, <<"0">>, <<"0">>, <<"0">>>>)

\* the lines of a log whose signatures start a line or do not
SigLines == { LOAD_N1, WP_L1D, MID_NORM, MID_WP, ROI_A, LOAD_T }

SigTexts == SeqsUpTo(SigLines, MaxLines)

\* the entries of a list of ratios
GeoValues ==
    { None, PyInt(0), PyFloat(0, 1), PyFloat(-1, 2), PyFloat(1, 2), PyFloat(2, 1), PyFloat(3, 1) }

-----------------------------------------------------------------------------
(* main *)

Unset == [t |-> "unset"]

\* what open(path, "r", errors="ignore").read() does: raises, or returns a text
Reads(T) == {[ok |-> FALSE, text |-> <<>>]} \cup {[ok |-> TRUE, text |-> t] : t \in T}

\* submit.py not started
SubmitIdle ==
    /\ opts = [wait |-> FALSE, summarize |-> FALSE, no_auto_summarize |-> FALSE]
    /\ total = 0
    /\ chunk = 1
    /\ start = 0
    /\ piece = 0
    /\ cmds = <<>>
    /\ job_ids = <<>>
    /\ queue = {}
    /\ polled = 0
    /\ summarized = FALSE
    /\ spc = "idle"

Idle ==
    /\ lst = <<>>
    /\ gm = Unset
    /\ SubmitIdle

\* main before its loop, for a batch of at most MaxFiles files
Init ==
    /\ \E S \in SUBSET Names : Cardinality(S) <= MaxFiles /\ files = SortedNames(S)
    /\ i = 1
    /\ reads = <<>>
    /\ rows = <<>>
    /\ error_rows = <<>>
    /\ pc = "loop"
    /\ written = <<>>
    /\ norm_rows = <<>>
    /\ Idle

\* one iteration of "for path in sorted(glob.glob(args.glob))", the file's
\* text drawn from T
ParseFile(T) ==
    /\ pc = "loop"
    /\ i <= Len(files)
    /\ \E rd \in Reads(T) :
        LET path == files[i]
            bench == bench_from_name(path)
            cfg == label_from_name(path, LABEL_MAP)
            res == parse_one_file(rd)
            row == [bench |-> PyStr(bench), config |-> PyStr(cfg), file |-> PyStr(path)]
        IN  /\ reads' = Append(reads, rd)
            /\ IF res.raised
               THEN /\ pc' = "crashed"
                    /\ UNCHANGED <<i, rows, error_rows>>
               ELSE IF res.err # ""
               THEN /\ error_rows' = Append(error_rows,
                            [file |-> path, bench |-> bench, config |-> cfg,
                             error_code |-> res.err, detail |-> res.detail])
                    /\ i' = i + 1
                    /\ UNCHANGED <<pc, rows>>
               ELSE /\ rows' = Append(rows, res.row @@ row)
                    /\ i' = i + 1
                    /\ UNCHANGED <<pc, error_rows>>
    /\ UNCHANGED <<files, written, norm_rows, lst, gm, submit_vars>>

FilesOf(rs) == [k \in 1..Len(rs) |-> rs[k]["file"].s]

\* WriteErrors taken from inside the loop, before the last file
WriteErrors_early ==
    /\ pc = "loop"
    /\ written' = IF error_rows # <<>>
                  THEN Append(written, [name |-> "parse_errors.csv",
                                        of |-> [k \in 1..Len(error_rows) |-> error_rows[k].file],
                                        header |-> ERROR_FIELDNAMES,
                                        cells |-> error_rows])
                  ELSE written
    /\ pc' = IF rows = <<>> THEN "done" ELSE "full"
    /\ UNCHANGED <<files, i, reads, rows, error_rows, norm_rows, lst, gm, submit_vars>>

\* after the loop: parse_errors.csv when there are error rows, and the
\* return when no row was parsed
WriteErrors ==
    /\ pc = "loop"
    /\ i > Len(files)
    /\ written' = IF error_rows # <<>>
                  THEN Append(written, [name |-> "parse_errors.csv",
                                        of |-> [k \in 1..Len(error_rows) |-> error_rows[k].file],
                                        header |-> ERROR_FIELDNAMES,
                                        cells |-> error_rows])
                  ELSE written
    /\ pc' = IF rows = <<>> THEN "done" ELSE "full"
    /\ UNCHANGED <<files, i, reads, rows, error_rows, norm_rows, lst, gm, submit_vars>>

WriteFull ==
    /\ pc = "full"
    /\ written' = Append(written, [name |-> "full_metrics.csv", of |-> FilesOf(rows),
                                     header |-> FULL_FIELDNAMES,
                                     cells |-> Cells(rows, FULL_FIELDNAMES)])
    /\ pc' = "summary"
    /\ UNCHANGED <<files, i, reads, rows, error_rows, norm_rows, lst, gm, submit_vars>>

WriteSummary ==
    /\ pc = "summary"
    /\ written' = Append(written, [name |-> "summary.csv", of |-> FilesOf(rows),
                                     header |-> SUMMARY_FIELDNAMES,
                                     cells |-> Cells(rows, SUMMARY_FIELDNAMES)])
    /\ pc' = "norm"
    /\ UNCHANGED <<files, i, reads, rows, error_rows, norm_rows, lst, gm, submit_vars>>

\* normalized_ipc.csv: the per-benchmark rows, then the geomean rows
Normalize ==
    /\ pc = "norm"
    /\ norm_rows' = normalize(rows, BASELINE)
    /\ written' = Append(written, [name |-> "normalized_ipc.csv", of |-> FilesOf(rows),
                                     header |-> <<"bench", "config", "norm">>,
                                     cells |-> normalize(rows, BASELINE)])
    /\ pc' = "done"
    /\ UNCHANGED <<files, i, reads, rows, error_rows, lst, gm, submit_vars>>

Next ==
    \/ ParseFile(BatchTexts)
    \/ WriteErrors
    \/ WriteFull
    \/ WriteSummary
    \/ Normalize

Spec == Init /\ [][Next]_vars

\* main on a batch of one file whose text is any text of FileTexts
InitFile ==
    /\ files = <<FileName(0, <<"mcf", "ChampSim">>)>>
    /\ i = 1
    /\ reads = <<>>
    /\ rows = <<>>
    /\ error_rows = <<>>
    /\ pc = "loop"
    /\ written = <<>>
    /\ norm_rows = <<>>
    /\ Idle

NextFile ==
    \/ ParseFile(FileTexts)
    \/ WriteErrors
    \/ WriteFull
    \/ WriteSummary
    \/ Normalize

SpecFile == InitFile /\ [][NextFile]_vars

\* main on a batch of one file whose text is any text of GateTexts
NextGate ==
    \/ ParseFile(GateTexts)
    \/ WriteErrors
    \/ WriteFull
    \/ WriteSummary
    \/ Normalize

SpecGate == InitFile /\ [][NextGate]_vars

\* main on a batch of one file whose text is any text of SigTexts
NextSig ==
    \/ ParseFile(SigTexts)
    \/ WriteErrors
    \/ WriteFull
    \/ WriteSummary
    \/ Normalize

SpecSig == InitFile /\ [][NextSig]_vars

\* geomean applied to a list of ratios
InitGeo ==
    /\ files = <<>>
    /\ i = 1
    /\ reads = <<>>
    /\ rows = <<>>
    /\ error_rows = <<>>
    /\ pc = "geomean"
    /\ written = <<>>
    /\ norm_rows = <<>>
    /\ lst \in SeqsUpTo(GeoValues, MaxList)
    /\ gm = Unset
    /\ SubmitIdle

CallGeomean ==
    /\ pc = "geomean"
    /\ gm' = geomean(lst)
    /\ pc' = "returned"
    /\ UNCHANGED <<files, i, reads, rows, error_rows, written, norm_rows, lst>>
    /\ UNCHANGED submit_vars

NextGeo == CallGeomean

SpecGeo == InitGeo /\ [][NextGeo]_vars

-----------------------------------------------------------------------------
(* submit.py: the array jobs of a run and what follows their submission *)

MaxTotal == 4     \* tasks of the matrix
MaxChunk == 3     \* resources.chunk

Min(a, b) == IF a < b THEN a ELSE b

\* a job name without the suffix "_p<piece>"
NoPiece == -1

\* a range that ends one index late
ChunkEnd_late(s, c, t) == Min(s + c, t)

\* end = min(start + chunk, total) - 1
ChunkEnd(s, c, t) == Min(s + c, t) - 1

\* jname = f"{name}_p{piece}" if total > chunk else name
JobName(p, c, t) == IF t > c THEN p ELSE NoPiece

\* what running sbatch does: it fails (check=True raises), or it accepts the
\* job and prints "Submitted batch job <id>", or accepts it and prints
\* something the pattern does not match
SbatchOutcomes == {"failed", "id", "no id"}

\* the job number Slurm gives to the next job it accepts
NextJob == Len(cmds) + 1

ArrayCmd(lo, hi, jname, job) ==
    [kind |-> "array", lo |-> lo, hi |-> hi, jname |-> jname, dep |-> <<>>, job |-> job]
SummarizeCmd(dep, job) ==
    [kind |-> "summarize", lo |-> 0, hi |-> 0, jname |-> NoPiece, dep |-> dep, job |-> job]

\* main up to the call of submit_in_chunks, for any flags, a matrix of 1 to
\* MaxTotal tasks and a chunk size of 1 to MaxChunk
InitSubmit ==
    /\ files = <<>>
    /\ i = 1
    /\ reads = <<>>
    /\ rows = <<>>
    /\ error_rows = <<>>
    /\ pc = "idle"
    /\ written = <<>>
    /\ norm_rows = <<>>
    /\ lst = <<>>
    /\ gm = Unset
    /\ opts \in [wait : BOOLEAN, summarize : BOOLEAN, no_auto_summarize : BOOLEAN]
    /\ total \in 1..MaxTotal
    /\ chunk \in 1..MaxChunk
    /\ start = 0
    /\ piece = 0
    /\ cmds = <<>>
    /\ job_ids = <<>>
    /\ queue = {}
    /\ polled = 0
    /\ summarized = FALSE
    /\ spc = "chunks"

\* one iteration of "for start in range(0, total, chunk)", and the return of
\* submit_in_chunks after the last one
submit_in_chunks ==
    /\ spc = "chunks"
    /\ start < total
    /\ \E out \in SbatchOutcomes :
        LET end == ChunkEnd(start, chunk, total)
            jname == JobName(piece, chunk, total)
            job == IF out = "failed" THEN 0 ELSE NextJob
        IN  /\ cmds' = Append(cmds, ArrayCmd(start, end, jname, job))
            /\ queue' = IF out = "failed" THEN queue ELSE queue \cup {job}
            /\ job_ids' = IF out = "id" THEN Append(job_ids, job) ELSE job_ids
            /\ IF out = "failed"
               THEN /\ spc' = "raised"
                    /\ UNCHANGED <<start, piece>>
               ELSE /\ start' = start + chunk
                    /\ piece' = piece + 1
                    /\ spc' = IF start + chunk < total THEN "chunks" ELSE "post"
    /\ UNCHANGED <<opts, total, chunk, polled, summarized>>
    /\ UNCHANGED e2e_vars

\* a job of the queue ends
JobEnds ==
    /\ spc \notin {"idle"}
    /\ \E j \in queue : queue' = queue \ {j}
    /\ UNCHANGED <<opts, total, chunk, start, piece, cmds, job_ids, polled, summarized, spc>>
    /\ UNCHANGED e2e_vars

\* the lines of the output of "squeue -j <job_ids>": a header, and a line
\* for each of the jobs asked for that has not ended
SqueueLines == 1 + Cardinality(queue \cap Range(job_ids))

\* main after wait_for_jobs has returned
AfterWait == IF opts.summarize THEN "summarize" ELSE "done"

\* wait_for_jobs under --summarize or --wait: the return without job ids,
\* or one round of its loop
wait_for_jobs ==
    /\ spc = "post"
    /\ opts.summarize \/ opts.wait
    /\ IF job_ids = <<>>
       THEN /\ spc' = AfterWait
            /\ UNCHANGED polled
       ELSE /\ polled' = SqueueLines
            /\ spc' = IF SqueueLines <= 1 THEN AfterWait ELSE "post"
    /\ UNCHANGED <<opts, total, chunk, start, piece, cmds, job_ids, queue, summarized>>
    /\ UNCHANGED e2e_vars

\* main under --summarize, after the wait
summarize_this_run ==
    /\ spc = "summarize"
    /\ summarized' = TRUE
    /\ spc' = "done"
    /\ UNCHANGED <<opts, total, chunk, start, piece, cmds, job_ids, queue, polled>>
    /\ UNCHANGED e2e_vars

\* main without --summarize, --wait and --no-auto-summarize: the summarize
\* job, submitted with the job ids as its afterok dependency
submit_summarize_job ==
    /\ spc = "post"
    /\ ~opts.summarize
    /\ ~opts.wait
    /\ ~opts.no_auto_summarize
    /\ \E out \in SbatchOutcomes :
          LET job == IF out = "failed" THEN 0 ELSE NextJob
          IN  /\ cmds' = Append(cmds, SummarizeCmd(job_ids, job))
              /\ queue' = IF out = "failed" THEN queue ELSE queue \cup {job}
              /\ spc' = IF out = "failed" THEN "raised" ELSE "done"
    /\ UNCHANGED <<opts, total, chunk, start, piece, job_ids, polled, summarized>>
    /\ UNCHANGED e2e_vars

\* main with --no-auto-summarize alone: return 0
ReturnAfterSubmit ==
    /\ spc = "post"
    /\ ~opts.summarize
    /\ ~opts.wait
    /\ opts.no_auto_summarize
    /\ spc' = "done"
    /\ UNCHANGED <<opts, total, chunk, start, piece, cmds, job_ids, queue, polled, summarized>>
    /\ UNCHANGED e2e_vars

NextSubmit ==
    \/ submit_in_chunks
    \/ JobEnds
    \/ wait_for_jobs
    \/ summarize_this_run
    \/ submit_summarize_job
    \/ ReturnAfterSubmit

SpecSubmit == InitSubmit /\ [][NextSubmit]_vars

-----------------------------------------------------------------------------
(* Properties *)

\* the number of columns the source asserts for FULL_FIELDNAMES
EXPECTED_COLUMNS == 183

\* the index in files of the file a row was parsed from
FileIndex(r) == CHOOSE j \in 1..Len(reads) : files[j] = r["file"].s
\* the text a row was parsed from
RowText(r) == reads[FileIndex(r)].text
RowFormat(r) == r["log_format"].s
RowMode(r) == r["wp_mode"].s
AllRows == {rows[k] : k \in 1..Len(rows)}

\* the first and the last line of a text that P accepts
FirstOf(txt, P(_)) ==
    txt[CHOOSE k \in 1..Len(txt) : P(txt[k]) /\ \A j \in 1..Len(txt) : P(txt[j]) => k <= j]
LastOf(txt, P(_)) ==
    txt[CHOOSE k \in 1..Len(txt) : P(txt[k]) /\ \A j \in 1..Len(txt) : P(txt[j]) => j <= k]

\* capture g of the first line that P accepts, converted as an int or as a
\* float that is None when the conversion fails or gives NaN or infinity;
\* None without such a line
FirstInt(txt, P(_), g) ==
    IF Exists(txt, P) THEN PyInt(DigitsValue(FirstOf(txt, P).args[g])) ELSE None
FirstFloat(txt, P(_), g) ==
    IF Exists(txt, P)
    THEN LET f == float(FirstOf(txt, P).args[g])
         IN  IF f.ok /\ f.kind = "num" THEN f.val ELSE None
    ELSE None

\* C1: every record appended to rows has exactly the 183 names of
\* FULL_FIELDNAMES as its keys, whatever the format, the mode and the lines
\* of the log.
C1_SchemaShape ==
    /\ Len(FULL_FIELDNAMES) = EXPECTED_COLUMNS
    /\ Cardinality(Range(FULL_FIELDNAMES)) = EXPECTED_COLUMNS
    /\ \A r \in AllRows : DOMAIN r = Range(FULL_FIELDNAMES)

\* a record of a wp_capable log with mode on that has its wp_cycles
C1_Witness ==
    \E r \in AllRows :
        /\ RowFormat(r) = "wp_capable"
        /\ RowMode(r) = "on"
        /\ ~IsNone(r["wp_cycles"])

\* the fields read from a level's lines: <<field, words, group>>
CacheCountFields ==
    { <<"load_access", "LOAD ACCESS", 1>>, <<"load_hit", "LOAD ACCESS", 2>>,
      <<"load_miss", "LOAD ACCESS", 3>>,
      <<"pf_access", "PREFETCH ACCESS", 1>>, <<"pf_hit", "PREFETCH ACCESS", 2>>,
      <<"pf_miss", "PREFETCH ACCESS", 3>>,
      <<"pf_requested", "PREFETCH REQUESTED", 1>>, <<"pf_issued", "PREFETCH REQUESTED", 2>>,
      <<"pf_useful", "PREFETCH REQUESTED", 3>>, <<"pf_useless", "PREFETCH REQUESTED", 4>> }
TlbCountFields ==
    { <<"access", "LOAD ACCESS", 1>>, <<"hit", "LOAD ACCESS", 2>>, <<"miss", "LOAD ACCESS", 3>> }
\* the wrong-path fields of a cache level, read only from a wp_capable log
CacheWpCountFields ==
    { <<"wp_access", "WRONG-PATH ACCESS", 1>>, <<"wp_useful", "WRONG-PATH ACCESS", 2>>,
      <<"wp_fill", "WRONG-PATH ACCESS", 3>>, <<"wp_useless", "WRONG-PATH ACCESS", 4>>,
      <<"pol_wp_fill", "POLLUTION", 2>>, <<"pol_wp_miss", "POLLUTION", 3>>,
      <<"pol_cp_fill", "POLLUTION", 4>>, <<"pol_cp_miss", "POLLUTION", 5>>,
      <<"data_req", "DATA REQ", 1>>, <<"data_hit", "DATA REQ", 2>>,
      <<"data_miss", "DATA REQ", 3>>, <<"data_wp_req", "DATA REQ", 4>>,
      <<"data_wp_hit", "DATA REQ", 5>>, <<"data_wp_miss", "DATA REQ", 6>> }
\* the same of a TLB: the group is the line's number (FILL is the third)
TlbWpCountFields ==
    { <<"wp_access", "WRONG-PATH ACCESS", 1>>, <<"wp_useful", "WRONG-PATH ACCESS", 2>>,
      <<"wp_useless", "WRONG-PATH ACCESS", 4>> }
WpFloatFields ==
    { <<"wp_miss_lat", "AVERAGE WP DATA MISS LATENCY", 1>>,
      <<"cp_miss_lat", "AVERAGE CP DATA MISS LATENCY", 1>> }
\* the fields read from lines without a unit name
PlainCountFields ==
    { <<"wp_insts_total", "wrong_path_insts", 1>>, <<"wp_insts_skipped", "wrong_path_insts", 2>>,
      <<"wp_insts_executed", "wrong_path_insts", 3>>,
      <<"instr_footprint", "instr_foot_print", 1>>, <<"data_footprint", "instr_foot_print", 2>>,
      <<"is_prefetch_insts", "is_prefetch_insts", 1>>,
      <<"is_prefetch_skipped", "is_prefetch_insts", 2>>,
      <<"dram_rq_row_hit", "Channel 0 RQ ROW_BUFFER_HIT", 1>>,
      <<"dram_rq_row_miss", "Channel 0 RQ ROW_BUFFER_HIT", 2>> }
PlainFloatFields ==
    { <<"branch_acc_percent", "Branch Prediction Accuracy", 1>>,
      <<"branch_mpki", "Branch Prediction Accuracy", 2>>,
      <<"br_direct_jump_mpki", "BRANCH_DIRECT_JUMP", 1>>,
      <<"br_indirect_mpki", "BRANCH_INDIRECT", 1>>,
      <<"br_conditional_mpki", "BRANCH_CONDITIONAL", 1>>,
      <<"br_direct_call_mpki", "BRANCH_DIRECT_CALL", 1>>,
      <<"br_indirect_call_mpki", "BRANCH_INDIRECT_CALL", 1>>,
      <<"br_return_mpki", "BRANCH_RETURN", 1>> }

\* the line of unit u that a level pattern with the words w accepts in a
\* log of format fmt_str
UnitLine(l, fmt_str, u, w) ==
    l.col = 0 /\ l.hier = (fmt_str = "normal") /\ l.unit = u /\ l.stmt = w

CacheUnit(lv) == cache_prefix(lv, "wp_capable").unit
TlbUnit(tlv) == tlb_prefix(tlv, "wp_capable").unit
CacheLevelSet == Range(CACHE_LEVELS)
TlbLevelSet == Range(TLB_LEVELS)
Key(lv, f) == lv \o "_" \o f


\* C2: a record's ipc, inst, cycles and wp_cycles all come from the last ROI
\* line of its log, and every other pattern-matched field from the first
\* line its pattern matches (a wrong-path field, when it is not null).
C2_LastRoiFirstElse ==
    \A r \in AllRows :
        LET txt == RowText(r)
            fmt_str == RowFormat(r)
            roi == LastOf(txt, ROI_RE)
            latw == IF fmt_str = "normal" THEN "AVERAGE MISS LATENCY"
                    ELSE "AVERAGE DATA MISS LATENCY"
        IN  /\ r["ipc"] = float(roi.args[1]).val
            /\ r["inst"] = PyInt(DigitsValue(roi.args[2]))
            /\ r["cycles"] = PyInt(DigitsValue(roi.args[3]))
            /\ r["wp_cycles"] = IF roi.args[4] = <<>> THEN None
                                ELSE PyInt(DigitsValue(roi.args[4]))
            /\ \A lv \in CacheLevelSet :
                /\ \A f \in CacheCountFields :
                      r[Key(lv, f[1])] =
                          FirstInt(txt, LAMBDA l : UnitLine(l, fmt_str, CacheUnit(lv), f[2]), f[3])
                /\ r[Key(lv, "miss_lat")] =
                      FirstFloat(txt, LAMBDA l : UnitLine(l, fmt_str, CacheUnit(lv), latw), 1)
                /\ \A f \in CacheWpCountFields :
                      ~IsNone(r[Key(lv, f[1])]) =>
                          r[Key(lv, f[1])] =
                              FirstInt(txt, LAMBDA l : UnitLine(l, fmt_str, CacheUnit(lv), f[2]), f[3])
                /\ ~IsNone(r[Key(lv, "pollution")]) =>
                      r[Key(lv, "pollution")] =
                          FirstFloat(txt, LAMBDA l : UnitLine(l, fmt_str, CacheUnit(lv), "POLLUTION"), 1)
                /\ \A f \in WpFloatFields :
                      ~IsNone(r[Key(lv, f[1])]) =>
                          r[Key(lv, f[1])] =
                              FirstFloat(txt, LAMBDA l : UnitLine(l, fmt_str, CacheUnit(lv), f[2]), f[3])
            /\ \A tlv \in TlbLevelSet :
                /\ \A f \in TlbCountFields :
                      r[Key(tlv, f[1])] =
                          FirstInt(txt, LAMBDA l : UnitLine(l, fmt_str, TlbUnit(tlv), f[2]), f[3])
                /\ r[Key(tlv, "miss_lat")] =
                      FirstFloat(txt, LAMBDA l : UnitLine(l, fmt_str, TlbUnit(tlv), latw), 1)
                /\ \A f \in TlbWpCountFields :
                      ~IsNone(r[Key(tlv, f[1])]) =>
                          r[Key(tlv, f[1])] =
                              FirstInt(txt, LAMBDA l : UnitLine(l, fmt_str, TlbUnit(tlv), f[2]), f[3])
                /\ \A f \in WpFloatFields :
                      ~IsNone(r[Key(tlv, f[1])]) =>
                          r[Key(tlv, f[1])] =
                              FirstFloat(txt, LAMBDA l : UnitLine(l, fmt_str, TlbUnit(tlv), f[2]), f[3])
            /\ \A f \in PlainCountFields :
                  r[f[1]] = FirstInt(txt, LAMBDA l : l.stmt = f[2], f[3])
            /\ \A f \in PlainFloatFields :
                  r[f[1]] = FirstFloat(txt, LAMBDA l : l.stmt = f[2], f[3])

\* a record of a log with two ROI lines that differ in every number, or
\* with two load lines of one level that differ
C2_Witness ==
    \E r \in AllRows :
        LET txt == RowText(r)
        IN  /\ \E a, b \in 1..Len(txt) :
                /\ a < b
                /\ ROI_RE(txt[a]) /\ ROI_RE(txt[b])
                /\ \A g \in 1..3 : txt[a].args[g] # txt[b].args[g]
            /\ ~IsNone(r["ipc"])

\* the wrong-path fields a wp_capable log with mode off leaves null
C3_CacheNull ==
    {"wp_access", "wp_useful", "wp_fill", "wp_useless", "pollution", "pol_wp_fill",
     "pol_wp_miss", "data_wp_req", "data_wp_hit", "data_wp_miss"}
C3_TlbNull == {"wp_access", "wp_useful", "wp_useless"}
C3_CacheKept == {"pol_cp_fill", "pol_cp_miss", "data_req", "data_hit", "data_miss"}

\* C3: in a record of a wp_capable log with mode off, the ten wrong-path
\* activity fields of every cache level and the three of every TLB are
\* null whatever the log holds, and wp_miss_lat, cp_miss_lat, pol_cp_fill,
\* pol_cp_miss, data_req, data_hit and data_miss are what their lines give.
C3_OffSuppression ==
    \A r \in AllRows :
        (RowFormat(r) = "wp_capable" /\ RowMode(r) = "off") =>
            LET txt == RowText(r)
            IN  /\ \A lv \in CacheLevelSet :
                    /\ \A f \in C3_CacheNull : IsNone(r[Key(lv, f)])
                    /\ \A f \in WpFloatFields :
                          r[Key(lv, f[1])] =
                              FirstFloat(txt, LAMBDA l : UnitLine(l, "wp_capable", CacheUnit(lv), f[2]), f[3])
                    /\ \A f \in {g \in CacheWpCountFields : g[1] \in C3_CacheKept} :
                          r[Key(lv, f[1])] =
                              FirstInt(txt, LAMBDA l : UnitLine(l, "wp_capable", CacheUnit(lv), f[2]), f[3])
                /\ \A tlv \in TlbLevelSet :
                    /\ \A f \in C3_TlbNull : IsNone(r[Key(tlv, f)])
                    /\ \A f \in WpFloatFields :
                          r[Key(tlv, f[1])] =
                              FirstFloat(txt, LAMBDA l : UnitLine(l, "wp_capable", TlbUnit(tlv), f[2]), f[3])

\* a record of an off-mode wp_capable log that holds a pollution line with
\* numbers: its pollution ratio is null and its pol_cp_fill is not
C3_Witness ==
    \E r \in AllRows :
        /\ RowFormat(r) = "wp_capable" /\ RowMode(r) = "off"
        /\ \E k \in 1..Len(RowText(r)) :
              UnitLine(RowText(r)[k], "wp_capable", "cpu0_L1D", "POLLUTION")
        /\ IsNone(r["l1d_pollution"])
        /\ ~IsNone(r["l1d_pol_cp_fill"])

\* v is miss * 1000 / inst, or null when miss is null or inst is 0
IsMpki(v, miss, inst) ==
    IF IsNone(miss) \/ NumOf(inst) = 0
    THEN IsNone(v)
    ELSE ~IsNone(v) /\ NumOf(v) * NumOf(inst) = NumOf(miss) * 1000 * DenOf(v)

\* C4: in every record each cache level's load_mpki and each TLB's mpki is
\* that level's miss count times 1000 over the record's inst, and null when
\* the miss count is null or inst is 0.
C4_Mpki ==
    \A r \in AllRows :
        /\ \A lv \in CacheLevelSet :
              IsMpki(r[Key(lv, "load_mpki")], r[Key(lv, "load_miss")], r["inst"])
        /\ \A tlv \in TlbLevelSet :
              IsMpki(r[Key(tlv, "mpki")], r[Key(tlv, "miss")], r["inst"])

\* a record with a positive miss count, a positive inst and an MPKI
C4_Witness ==
    \E r \in AllRows :
        /\ ~IsNone(r["l1d_load_miss"]) /\ NumOf(r["l1d_load_miss"]) > 0
        /\ NumOf(r["inst"]) > 0
        /\ ~IsNone(r["l1d_load_mpki"])

\* C10: a record's format is wp_capable exactly when its log has a line
\* with the wp_capable signature, also when the normal signature is there
\* too; it is normal only when the wp_capable signature is absent.
C10_DetectionOrder ==
    \A r \in AllRows :
        LET txt == RowText(r)
        IN  /\ RowFormat(r) = "wp_capable" <=> Exists(txt, WP_SIG)
            /\ RowFormat(r) = "normal" <=> (~Exists(txt, WP_SIG) /\ Exists(txt, NORM_SIG))

\* a wp_capable record of a log that holds both signatures
C10_Witness ==
    \E r \in AllRows :
        /\ Exists(RowText(r), WP_SIG)
        /\ Exists(RowText(r), NORM_SIG)
        /\ RowFormat(r) = "wp_capable"


\* the entries of a list that are a number above zero
Positives(l) == SelectSeq(l, LAMBDA v : ~IsNone(v) /\ NumOf(v) > 0)

\* C5: geomean returns the k-th root of the product of exactly the k entries
\* of its list that are not null and above zero, null when there is no such
\* entry, and raises on no list.
C5_GeomeanPositives ==
    pc = "returned" =>
        LET pos == Positives(lst)
        IN  /\ gm.t # "ValueError"
            /\ IF pos = <<>>
               THEN gm = None
               ELSE /\ gm.t = "root"
                    /\ gm.k = Len(pos)
                    /\ gm.n * ProdDen(pos) = gm.d * ProdNum(pos)

\* geomean returned for a list with a null, zero or negative entry and two
\* positive ones
C5_Witness ==
    /\ pc = "returned"
    /\ \E k \in 1..Len(lst) : IsNone(lst[k]) \/ NumOf(lst[k]) <= 0
    /\ Len(Positives(lst)) = 2
    /\ gm.t = "root"

\* the files read so far whose text has neither signature
NoSignature == {k \in 1..Len(reads) : reads[k].ok
                    /\ ~Exists(reads[k].text, WP_SIG) /\ ~Exists(reads[k].text, NORM_SIG)}
ErrorsOf(k) == {j \in 1..Len(error_rows) : error_rows[j].file = files[k]}
RowsOf(k) == {j \in 1..Len(rows) : rows[j]["file"].s = files[k]}

\* C6: a file whose text has neither the wp_capable nor the normal
\* signature gives exactly one error record, of kind unknown_format, and no
\* record in rows.
C6_UnknownFormat ==
    \A k \in NoSignature :
        /\ Cardinality(ErrorsOf(k)) = 1
        /\ \A j \in ErrorsOf(k) : error_rows[j].error_code = "unknown_format"
        /\ RowsOf(k) = {}

\* a finished batch with a file without signature that holds an ROI line
\* and another file that was parsed
C6_Witness ==
    /\ pc = "done"
    /\ rows # <<>>
    /\ \E k \in NoSignature : Exists(reads[k].text, ROI_RE)

\* the benchmarks of rows, and those with a per-benchmark normalized row
Benches == {rows[k]["bench"].s : k \in 1..Len(rows)}
Contributes(b) == \E k \in 1..Len(norm_rows) : norm_rows[k].bench = b
\* the IPC of the last record of b under the baseline label, None without one
BaselineRecords(b) ==
    {k \in 1..Len(rows) : rows[k]["bench"].s = b /\ rows[k]["config"].s = BASELINE}
LastBaselineIpc(b) ==
    IF BaselineRecords(b) = {} THEN None
    ELSE rows[CHOOSE k \in BaselineRecords(b) : \A j \in BaselineRecords(b) : j <= k]["ipc"]
Positive(v) == ~IsNone(v) /\ NumOf(v) > 0
Normalized == pc = "done" /\ rows # <<>>

\* C7: once normalization is done, a benchmark has normalized rows exactly
\* when its last record (in path order) under the baseline label has a
\* non-null IPC above zero, and norm_rows, geometric means included, is
\* what it would be without the records of the benchmarks that have none.
C7_BaselineGate ==
    Normalized =>
        LET failing == {b \in Benches : ~Positive(LastBaselineIpc(b))}
        IN  /\ \A b \in Benches : Contributes(b) <=> b \notin failing
            /\ norm_rows = normalize(SelectSeq(rows, LAMBDA r : r["bench"].s \notin failing),
                                     BASELINE)

\* normalization done for a batch with a benchmark that has a positive IPC
\* but no baseline, a benchmark with its baseline, and a geometric mean
C7_Witness ==
    /\ Normalized
    /\ \E b \in Benches :
          /\ ~Positive(LastBaselineIpc(b))
          /\ \E k \in 1..Len(rows) : rows[k]["bench"].s = b /\ Positive(rows[k]["ipc"])
    /\ \E b \in Benches : Positive(LastBaselineIpc(b))
    /\ Contributes(GEOMEAN_BENCH)

\* C7 as first stated: a benchmark has normalized rows exactly when rows
\* holds some record of it under the baseline label with a non-null IPC
\* above zero.
C7_AnyBaselineRecord ==
    Normalized =>
        \A b \in Benches :
            Contributes(b) <=> \E k \in BaselineRecords(b) : Positive(rows[k]["ipc"])

\* C8: when main has left its loop, every file of the batch has exactly one
\* record in rows or exactly one error record, and never both.
C8_EveryFileOnce ==
    pc # "loop" =>
        \A k \in 1..Len(files) :
            /\ Cardinality(RowsOf(k)) + Cardinality(ErrorsOf(k)) = 1
            /\ \A j \in ErrorsOf(k) :
                  error_rows[j].error_code \in {"unreadable_file", "unknown_format", "missing_roi"}

\* the files read so far whose last ROI line has an IPC capture that float()
\* does not convert
BadIpc == {k \in 1..Len(reads) :
              /\ reads[k].ok
              /\ Exists(reads[k].text, WP_SIG) \/ Exists(reads[k].text, NORM_SIG)
              /\ Exists(reads[k].text, ROI_RE)
              /\ ~float(LastOf(reads[k].text, ROI_RE).args[1]).ok}

\* C9: a capture that does not convert to a finite number gives a null
\* field and no error or exception; a file whose ROI line has such an IPC
\* capture gives a record whose ipc is null.
C9_BadCaptureIsNull ==
    /\ pc # "crashed"
    /\ \A r \in AllRows :
          \A f \in PlainFloatFields :
              LET m == W(RowText(r), f[2])
              IN  (m.found /\ (~float(m.groups[f[3]]).ok \/ float(m.groups[f[3]]).kind # "num"))
                      => IsNone(r[f[1]])
    /\ \A k \in BadIpc : \E j \in RowsOf(k) : IsNone(rows[j]["ipc"])


\* the files read so far, by what the first steps of parse_one_file find
Unreadable == {k \in 1..Len(reads) : ~reads[k].ok}
NoRoi == {k \in 1..Len(reads) : reads[k].ok /\ ~Exists(reads[k].text, ROI_RE)}
HasSignature == {k \in 1..Len(reads) : reads[k].ok /\ k \notin NoSignature}
ErrorKinds(k) == {error_rows[j].error_code : j \in ErrorsOf(k)}

\* C11: the error kind of a file is that of the first failing step of
\* read, format detection, ROI extraction: a readable file without a
\* signature is unknown_format also when it has no ROI line, and
\* missing_roi is the kind of exactly the readable files with a signature
\* and no ROI line.
C11_FirstFailingStep ==
    \A k \in 1..Len(reads) :
        /\ k \in Unreadable => ErrorKinds(k) = {"unreadable_file"}
        /\ k \in NoSignature => ErrorKinds(k) = {"unknown_format"}
        /\ "missing_roi" \in ErrorKinds(k) <=> (k \in HasSignature /\ k \in NoRoi)
        /\ Cardinality(ErrorsOf(k)) <= 1

\* a batch with a file that has neither a signature nor an ROI line and a
\* file that has a signature and no ROI line, both reported
C11_Witness ==
    /\ \E k \in NoSignature \cap NoRoi : ErrorKinds(k) = {"unknown_format"}
    /\ \E k \in HasSignature \cap NoRoi : ErrorKinds(k) = {"missing_roi"}


\* the files read so far that are wp_capable and whose last ROI line has no
\* wp_cycles capture
NoWpCycles == {k \in 1..Len(reads) :
                  /\ reads[k].ok
                  /\ Exists(reads[k].text, WP_SIG)
                  /\ Exists(reads[k].text, ROI_RE)
                  /\ LastOf(reads[k].text, ROI_RE).args[4] = <<>>}

\* C12: a record's parse_warnings holds missing_wp_cycles exactly when its
\* log is wp_capable and its last ROI line has no wp_cycles; such a file
\* still gives a record, with wp_cycles null, and no error record.
C12_MissingWpCycles ==
    /\ \A r \in AllRows :
          r["parse_warnings"] = PyStr("missing_wp_cycles") <=> FileIndex(r) \in NoWpCycles
    /\ \A k \in NoWpCycles :
          /\ \E j \in RowsOf(k) : IsNone(rows[j]["wp_cycles"])
          /\ ErrorsOf(k) = {}


\* the configurations rows holds for a benchmark, and the IPC of the last
\* record of a benchmark under a configuration
ConfigsOf(b) == {rows[k]["config"].s : k \in {j \in 1..Len(rows) : rows[j]["bench"].s = b}}
RecordsOf(b, c) ==
    {k \in 1..Len(rows) : rows[k]["bench"].s = b /\ rows[k]["config"].s = c}
LastIpc(b, c) == rows[CHOOSE k \in RecordsOf(b, c) : \A j \in RecordsOf(b, c) : j <= k]["ipc"]
NormRowsOf(b, c) ==
    {k \in 1..Len(norm_rows) : norm_rows[k].bench = b /\ norm_rows[k].config = c}
\* q is the ratio v / base of two numbers
IsRatio(q, v, base) ==
    ~IsNone(q) /\ NumOf(q) * DenOf(v) * NumOf(base) = DenOf(q) * NumOf(v) * DenOf(base)

\* C13: for a benchmark with a positive baseline IPC there is one normalized
\* row for every configuration rows holds for it, the baseline included,
\* whose ratio is IPC(config) / IPC(baseline), null only when the IPC of the
\* configuration is null: an IPC of 0 gives the ratio 0.
C13_RatioForEveryConfig ==
    Normalized =>
        \A b \in Benches :
            Positive(LastBaselineIpc(b)) =>
                \A c \in ConfigsOf(b) :
                    /\ Cardinality(NormRowsOf(b, c)) = 1
                    /\ \A k \in NormRowsOf(b, c) :
                          IF IsNone(LastIpc(b, c))
                          THEN IsNone(norm_rows[k].norm)
                          ELSE IsRatio(norm_rows[k].norm, LastIpc(b, c), LastBaselineIpc(b))


\* the per-benchmark rows and the aggregate rows of norm_rows
PerBench == {k \in 1..Len(norm_rows) : norm_rows[k].bench # GEOMEAN_BENCH}
Aggregates(c) == NormRowsOf(GEOMEAN_BENCH, c)
\* the ratios of a configuration, in the order of the per-benchmark rows
RatiosOf(c) ==
    LET of_c == SelectSeq(norm_rows, LAMBDA nr : nr.bench # GEOMEAN_BENCH /\ nr.config = c)
    IN  [k \in 1..Len(of_c) |-> of_c[k].norm]
\* g is the geometric mean of the positive entries of l, null without any
IsGeomeanOf(g, l) ==
    LET pos == Positives(l)
    IN  IF pos = <<>> THEN g = None
        ELSE /\ g.t = "root"
             /\ g.k = Len(pos)
             /\ g.n * ProdDen(pos) = g.d * ProdNum(pos)

\* C14: norm_rows holds exactly one __geomean__ row for each configuration
\* other than the baseline that a per-benchmark row names, also when all
\* the ratios of the configuration are null, none for the baseline, and
\* the row's value is the geometric mean of the configuration's positive
\* ratios.
C14_OneAggregatePerConfig ==
    Normalized =>
        /\ \A k \in PerBench :
              LET c == norm_rows[k].config
              IN  IF c = BASELINE
                  THEN Aggregates(c) = {}
                  ELSE /\ Cardinality(Aggregates(c)) = 1
                       /\ \A j \in Aggregates(c) : IsGeomeanOf(norm_rows[j].norm, RatiosOf(c))
        /\ \A j \in 1..Len(norm_rows) :
              norm_rows[j].bench = GEOMEAN_BENCH =>
                  \E k \in PerBench : norm_rows[k].config = norm_rows[j].config


\* the position of a name in a list of names without duplicates
IndexIn(names, f) == CHOOSE k \in 1..Len(names) : names[k] = f
NoDuplicates(names) == Cardinality(Range(names)) = Len(names)
StrictSubset(names, all) == Range(names) \subseteq Range(all) /\ Range(names) # Range(all)
Outputs(name) == {k \in 1..Len(written) : written[k].name = name}

\* C15 (amended): SUMMARY_FIELDNAMES is a strict subset of FULL_FIELDNAMES
\* without duplicates, and it is the header of every summary written, whose
\* cells are those of the full output's columns of the same name.
C15_StrictSubset ==
    /\ StrictSubset(SUMMARY_FIELDNAMES, FULL_FIELDNAMES)
    /\ NoDuplicates(SUMMARY_FIELDNAMES)
    /\ \A s \in Outputs("summary.csv") :
          /\ written[s].header = SUMMARY_FIELDNAMES
          /\ \A u \in Outputs("full_metrics.csv") :
                /\ Len(written[s].cells) = Len(written[u].cells)
                /\ \A k \in 1..Len(written[s].cells) :
                      /\ DOMAIN written[s].cells[k] = Range(SUMMARY_FIELDNAMES)
                      /\ \A f \in Range(SUMMARY_FIELDNAMES) \ {"bench", "config"} :
                            written[s].cells[k][f] = written[u].cells[k][f]

\* a summary written for two records
C15_Witness ==
    \E s \in Outputs("summary.csv") : Len(written[s].cells) = 2

\* C15 as first stated: the columns of a summary are a strict subset of
\* the columns of the full output, without duplicates, in the same relative
\* order as there.
C15_SubsetSameOrder ==
    \A s \in Outputs("summary.csv") :
        \A u \in Outputs("full_metrics.csv") :
            LET names == written[s].header
                all == written[u].header
            IN  /\ StrictSubset(names, all)
                /\ NoDuplicates(names)
                /\ \A a, b \in 1..Len(names) :
                      a < b => IndexIn(all, names[a]) < IndexIn(all, names[b])

\* main has ended: by its return, or by an exception nothing catches
Ended == pc \in {"done", "crashed"}
OutputNames == [k \in 1..Len(written) |-> written[k].name]
ErrorFiles == [k \in 1..Len(error_rows) |-> error_rows[k].file]

\* C16: when main has ended, a batch without a record has written the error
\* listing of its failed files and nothing else, and a batch with a record
\* and an error record has written the error listing of exactly the failed
\* files and the full, summary and normalized outputs of exactly the files
\* with a record.
C16_OutputsByOutcome ==
    Ended =>
        /\ (rows = <<>> /\ error_rows # <<>>) =>
              /\ OutputNames = <<"parse_errors.csv">>
              /\ written[1].of = ErrorFiles
        /\ (rows = <<>> /\ error_rows = <<>>) => written = <<>>
        /\ (rows # <<>> /\ error_rows # <<>>) =>
              /\ OutputNames = <<"parse_errors.csv", "full_metrics.csv",
                                 "summary.csv", "normalized_ipc.csv">>
              /\ written[1].of = ErrorFiles
              /\ \A k \in 2..4 : written[k].of = FilesOf(rows)


\* what parse_one_file gives for the text of a record without its
\* "Wrong path enabled" lines
WithoutModeLines(r) ==
    parse_one_file([ok |-> TRUE,
                    text |-> SelectSeq(RowText(r), LAMBDA l : ~WP_MODE(l))]).row

\* C17: the mode of a normal log is not read from its text: a record of a
\* normal log has the same wp_mode, and the same other fields, as the record
\* of the same text without its "Wrong path enabled" lines.
C17_ModeOnlyWpCapable ==
    \A r \in AllRows :
        RowFormat(r) = "normal" =>
            \A f \in DOMAIN WithoutModeLines(r) : r[f] = WithoutModeLines(r)[f]

\* the fields of a level that only a wp_capable log gives
CacheGated ==
    {"wp_access", "wp_useful", "wp_fill", "wp_useless", "pollution", "pol_wp_fill",
     "pol_wp_miss", "pol_cp_fill", "pol_cp_miss", "data_req", "data_hit", "data_miss",
     "data_wp_req", "data_wp_hit", "data_wp_miss", "wp_miss_lat", "cp_miss_lat"}
TlbGated == {"wp_access", "wp_useful", "wp_useless", "wp_miss_lat", "cp_miss_lat"}

\* C18: in a record of a normal log the seventeen gated fields of every
\* cache level and the five of every TLB are null whatever lines the log
\* holds, and the load and prefetch counts and miss_lat are what their
\* lines give.
C18_NormalGated ==
    \A r \in AllRows :
        RowFormat(r) = "normal" =>
            LET txt == RowText(r)
            IN  /\ \A lv \in CacheLevelSet :
                    /\ \A f \in CacheGated : IsNone(r[Key(lv, f)])
                    /\ \A f \in CacheCountFields :
                          r[Key(lv, f[1])] =
                              FirstInt(txt, LAMBDA l : UnitLine(l, "normal", CacheUnit(lv), f[2]), f[3])
                    /\ r[Key(lv, "miss_lat")] =
                          FirstFloat(txt, LAMBDA l : UnitLine(l, "normal", CacheUnit(lv),
                                                              "AVERAGE MISS LATENCY"), 1)
                /\ \A tlv \in TlbLevelSet :
                    /\ \A f \in TlbGated : IsNone(r[Key(tlv, f)])
                    /\ \A f \in TlbCountFields :
                          r[Key(tlv, f[1])] =
                              FirstInt(txt, LAMBDA l : UnitLine(l, "normal", TlbUnit(tlv), f[2]), f[3])

\* a record of a normal log that holds a gated line with the normal prefix
\* and has its load count
C18_Witness ==
    \E r \in AllRows :
        /\ RowFormat(r) = "normal"
        /\ \E k \in 1..Len(RowText(r)) :
              \/ UnitLine(RowText(r)[k], "normal", "cpu0_L1D", "POLLUTION")
              \/ UnitLine(RowText(r)[k], "normal", "cpu0_DTLB", "AVERAGE CP DATA MISS LATENCY")
        /\ ~IsNone(r["l1d_load_access"])

\* the pipeline, ROB and resteer fields: <<field, words>>
G4CountFields ==
    { <<"exec_only_wp_cycles", "Execute Only WP Cycles">>,
      <<"exec_only_cp_cycles", "Execute Only CP Cycles">>,
      <<"exec_cp_wp_cycles", "Execute CP WP Cycles">>,
      <<"rob_full_cycles", "ROB Full Cycles">>,
      <<"rob_empty_cycles", "ROB Empty Cycles">>,
      <<"rob_full_events", "ROB Full Events">>,
      <<"rob_empty_events", "ROB Empty Events">>,
      <<"resteer_events", "Resteer Events">> }
G4FloatFields ==
    { <<"resteer_penalty_pct", "Resteer Penalty">>,
      <<"wp_not_avail_cycles_pct", "WP Not Available Count">> }

\* the files read so far with a signature and an ROI line float() converts
Parseable == {k \in HasSignature : k \notin NoRoi /\ k \notin BadIpc}

\* C19: the ten pipeline, ROB and resteer fields are what their lines give
\* in a record of a wp_capable log and null in a record of a normal log;
\* the branch, wrong-path instruction, footprint, prefetch and DRAM fields
\* are what their lines give in both, null without the line, and a file
\* with a signature and an ROI line has a record whichever of these lines
\* it lacks.
C19_GroupGating ==
    /\ \A r \in AllRows :
          LET txt == RowText(r)
          IN  /\ \A f \in G4CountFields :
                    r[f[1]] = IF RowFormat(r) = "wp_capable"
                              THEN FirstInt(txt, LAMBDA l : l.stmt = f[2], 1)
                              ELSE None
              /\ \A f \in G4FloatFields :
                    r[f[1]] = IF RowFormat(r) = "wp_capable"
                              THEN FirstFloat(txt, LAMBDA l : l.stmt = f[2], 1)
                              ELSE None
              /\ \A f \in PlainCountFields :
                    r[f[1]] = FirstInt(txt, LAMBDA l : l.stmt = f[2], f[3])
              /\ \A f \in PlainFloatFields :
                    r[f[1]] = FirstFloat(txt, LAMBDA l : l.stmt = f[2], f[3])
    /\ \A k \in Parseable : Cardinality(RowsOf(k)) = 1 /\ ErrorsOf(k) = {}

\* a record of a normal log that holds a ROB line and lacks the line of
\* another group: both fields are null and the record is there
C19_Witness ==
    \E r \in AllRows :
        /\ RowFormat(r) = "normal"
        /\ \E k \in 1..Len(RowText(r)) : RowText(r)[k].stmt = "ROB Full Cycles"
        /\ IsNone(r["rob_full_cycles"])
        /\ IsNone(r["wp_insts_total"])

\* the decimal numeral of a natural number
Numerals == <<"0", "1", "2", "3", "4", "5", "6", "7", "8", "9">>
RECURSIVE Decimal(_)
Decimal(n) == IF n < 10 THEN Numerals[n + 1] ELSE Decimal(n \div 10) \o Numerals[(n % 10) + 1]

\* the full and summary outputs written so far
Tables == Outputs("full_metrics.csv") \cup Outputs("summary.csv")

\* C20: in every full and summary output the cell of a null field is the
\* empty string and the cell of an int field is its decimal numeral, "0"
\* for the value 0.
C20_NullEmptyIntVerbatim ==
    \A w \in Tables :
        /\ Len(written[w].cells) = Len(rows)
        /\ \A k \in 1..Len(rows) :
              \A f \in Range(written[w].header) :
                  LET v == rows[k][f]
                      c == written[w].cells[k][f]
                  IN  /\ IsNone(v) => c = ""
                      /\ v.t = "int" => (c = Decimal(v.v) /\ c # "")

\* a full output with a record that has a count of 0 and a null field
C20_Witness ==
    \E w \in Outputs("full_metrics.csv") :
        \E k \in 1..Len(rows) :
            /\ rows[k]["l1d_wp_access"] = PyInt(0)
            /\ written[w].cells[k]["l1d_wp_access"] = "0"
            /\ IsNone(rows[k]["l1d_load_miss"])
            /\ written[w].cells[k]["l1d_load_miss"] = ""


\* a line that starts with the hierarchical prefix "cpu0->cpu0_", and a
\* line that starts with a wrong-path access statistic
StartsNormal(l) == l.col = 0 /\ l.hier /\ l.unit \in Cpu0Units
StartsWp(l) ==
    l.col = 0 /\ ~l.hier /\ l.unit \in Cpu0Units \cup {"LLC"} /\ l.stmt = "WRONG-PATH ACCESS"

\* C21: a record is normal only if some line of its log starts with the
\* hierarchical prefix, and wp_capable only if some line starts with a
\* wrong-path access statistic; a file whose signatures are all in the
\* middle of a line has no record.
C21_AnchoredSignatures ==
    /\ \A r \in AllRows :
          /\ RowFormat(r) = "normal" => Exists(RowText(r), StartsNormal)
          /\ RowFormat(r) = "wp_capable" => Exists(RowText(r), StartsWp)
    /\ \A k \in 1..Len(reads) :
          (reads[k].ok /\ ~Exists(reads[k].text, StartsNormal)
                       /\ ~Exists(reads[k].text, StartsWp)) => RowsOf(k) = {}


\* the normalization stage has started: main is at its first statement, or
\* has written its output
NormStarted == pc = "norm" \/ Outputs("normalized_ipc.csv") # {}
\* every file of the batch has exactly one record or error record
AllProcessed ==
    /\ Len(reads) = Len(files)
    /\ \A k \in 1..Len(files) : Cardinality(RowsOf(k)) + Cardinality(ErrorsOf(k)) = 1

\* C22: in every step taken once the normalization stage has started, and in
\* the step that runs it, every file of the batch has a record or an error
\* record, the records and error records are left as they are, and no file
\* is read or parsed.
C22_NormalizeAfterExtraction ==
    [][(NormStarted \/ NormStarted')
          => /\ AllProcessed
             /\ rows' = rows
             /\ error_rows' = error_rows
             /\ reads' = reads
             /\ i' = i]_vars

\* normalization has run on a batch of two files, one with a record and one
\* with an error record
C22_Witness ==
    /\ pc = "done"
    /\ Outputs("normalized_ipc.csv") # {}
    /\ Len(files) = 2
    /\ Len(rows) = 1
    /\ Len(error_rows) = 1
    /\ norm_rows # <<>>


\* the outputs that have one row for every record
RowOutputs == Outputs("full_metrics.csv") \cup Outputs("summary.csv")
\* the pairs (benchmark, configuration) that several records share
SharedPairs ==
    {p \in Benches \X {"latest", "schedcost_off", "schedcost_on", "unknown"} :
        Cardinality(RecordsOf(p[1], p[2])) >= 2}

\* C25: once normalization is done, the full and the summary output have one
\* row for every record, in the order of the records, also when several
\* records share a benchmark and a configuration; the normalized output has
\* at most one per-benchmark row for a benchmark and a configuration, and
\* its ratio is taken from the IPC of the last record of the pair and the
\* IPC of the last record of the benchmark under the baseline label.
C25_LastDuplicateWins ==
    Normalized =>
        /\ \A k \in RowOutputs :
              /\ written[k].of = FilesOf(rows)
              /\ Len(written[k].cells) = Len(rows)
              /\ NoDuplicates(written[k].of)
        /\ \A b \in Benches : \A c \in ConfigsOf(b) :
              /\ Cardinality(NormRowsOf(b, c)) <= 1
              /\ \A k \in NormRowsOf(b, c) :
                    IF IsNone(LastIpc(b, c)) \/ NumOf(LastIpc(b, c)) = 0
                    THEN IsNone(norm_rows[k].norm)
                    ELSE IsRatio(norm_rows[k].norm, LastIpc(b, c), LastBaselineIpc(b))

\* normalization done for a benchmark with two records under the baseline
\* label, of different positive IPCs, and a record under another label that
\* has a ratio
C25_Witness ==
    /\ Normalized
    /\ \E p \in SharedPairs :
          /\ p[2] = BASELINE
          /\ \E j, k \in RecordsOf(p[1], p[2]) :
                /\ Positive(rows[j]["ipc"])
                /\ Positive(rows[k]["ipc"])
                /\ NumOf(rows[j]["ipc"]) * DenOf(rows[k]["ipc"])
                       # NumOf(rows[k]["ipc"]) * DenOf(rows[j]["ipc"])
          /\ \E c \in ConfigsOf(p[1]) \ {BASELINE} :
                \E k \in NormRowsOf(p[1], c) : ~IsNone(norm_rows[k].norm)
    /\ RowOutputs # {}


\* the array ranges issued so far, in order, and the summarize jobs
ArrayCmds == SelectSeq(cmds, LAMBDA c : c.kind = "array")
SummarizeCmds == SelectSeq(cmds, LAMBDA c : c.kind = "summarize")
\* submit_in_chunks has returned to main
ChunksReturned == spc \in {"post", "summarize", "done"} \/ SummarizeCmds # <<>>
\* the ranges that cover task index t
Covering(t) == {k \in 1..Len(ArrayCmds) : ArrayCmds[k].lo <= t /\ t <= ArrayCmds[k].hi}

\* C24: the array ranges issued are non-empty ranges of at most chunk
\* indices within 0..total-1, the first starts at 0 and each next one starts
\* right after the one before it, so no index is covered twice; once
\* submit_in_chunks has returned every index of 0..total-1 is covered exactly
\* once; and the job name has the suffix of its piece exactly when
\* total > chunk.
C24_ChunksPartition ==
    /\ \A k \in 1..Len(ArrayCmds) :
          /\ ArrayCmds[k].lo <= ArrayCmds[k].hi
          /\ ArrayCmds[k].hi - ArrayCmds[k].lo + 1 <= chunk
          /\ ArrayCmds[k].hi <= total - 1
          /\ ArrayCmds[k].lo = IF k = 1 THEN 0 ELSE ArrayCmds[k - 1].hi + 1
          /\ ArrayCmds[k].jname = IF total > chunk THEN k - 1 ELSE NoPiece
    /\ \A t \in 0..(total - 1) : Cardinality(Covering(t)) <= 1
    /\ ChunksReturned => \A t \in 0..(total - 1) : Cardinality(Covering(t)) = 1

\* submit_in_chunks has returned after several ranges, the last one shorter
\* than chunk
C24_Witness ==
    /\ ChunksReturned
    /\ Len(ArrayCmds) >= 2
    /\ total > chunk
    /\ chunk >= 2
    /\ ArrayCmds[Len(ArrayCmds)].hi - ArrayCmds[Len(ArrayCmds)].lo + 1 < chunk

\* the jobs Slurm accepted for the array ranges
ArrayJobs == {ArrayCmds[k].job : k \in 1..Len(ArrayCmds)} \ {0}
\* submit.py has returned from main
Returned == spc = "done"

\* C23: with --summarize the summarizer runs only after squeue has reported
\* no remaining job, and main returns with the summarizer run and no
\* summarize job; with --wait alone main returns after squeue has reported
\* no remaining job, with no summarizer run and no summarize job; with no
\* flag main returns without having asked squeue, with one summarize job
\* whose dependency names every array job that was submitted; with
\* --no-auto-summarize alone main returns with the array jobs only.
C23_OnePostSubmissionPath ==
    /\ summarized => polled = 1
    /\ Returned =>
          CASE opts.summarize ->
                  summarized /\ polled = 1 /\ SummarizeCmds = <<>>
            [] ~opts.summarize /\ opts.wait ->
                  ~summarized /\ polled = 1 /\ SummarizeCmds = <<>>
            [] ~opts.summarize /\ ~opts.wait /\ ~opts.no_auto_summarize ->
                  /\ ~summarized
                  /\ polled = 0
                  /\ Len(SummarizeCmds) = 1
                  /\ Range(SummarizeCmds[1].dep) = ArrayJobs
            [] OTHER ->
                  ~summarized /\ polled = 0 /\ SummarizeCmds = <<>>

=============================================================================
